---- MODULE Spec2Model ----
(***************************************************************************)
(* Route-progress and ETA engine of the shuttle tracking backend:          *)
(*   services/osrm.py  OSRMService  (routing gateway, 60 s response cache) *)
(*   services/eta.py   ETAService   (progress tracker, segment-distance    *)
(*                                   cache, ETA orchestration)             *)
(*   core/route_config.py           (stations, routes, haversine)          *)
(*                                                                         *)
(* The service runs on one asyncio event loop: a coroutine runs without    *)
(* interruption between two awaits that really suspend, and the only such  *)
(* awaits are the HTTP requests to the routing engine.  Every action below *)
(* is one such uninterrupted stretch of one call.                          *)
(*                                                                         *)
(* Numbers.  Coordinates are <<lat, lon>> pairs as in the code, measured   *)
(* in a local planar frame in units of 250 m (the frame the code's         *)
(* _point_to_segment_distance builds with its cos(latitude) factor), with  *)
(* FLAME Campus at the origin.                                             *)
(* Distances are whole metres, durations whole seconds.  A number in an    *)
(* engine response is given in tenths, so that int() truncates.            *)
(***************************************************************************)
EXTENDS Integers, Sequences, FiniteSets, TLC

VARIABLES
    now,        \* wall clock, seconds (datetime.utcnow / datetime.now)
    osrmCache,  \* OSRMService._cache: key -> [value, timestamp]
    segCache,   \* ETAService._segment_distance_cache: route_id -> (segment_key -> distance)
    pc,         \* per call slot: where the coroutine is suspended
    args,       \* per call slot: the arguments of the call in progress
    local,      \* per call slot: the locals that live across an await
    ret,        \* per call slot: what the call returned or raised
    hist,       \* per call slot: observations of the call (requests issued, ...)
    started,    \* number of calls started so far
    written     \* observation: <<route_id, segment_key>> -> the distance last stored for it

vars == <<now, osrmCache, segCache, pc, args, local, ret, hist, started, written>>

----------------------------------------------------------------------------
(* Bounds of the model *)

MaxCalls == 3
MaxTicks == 1

\* get_upcoming_stops_eta is called at most MaxComputes times
MaxComputes == 2

(* Program constants *)

CacheTtl == 60
StaleThreshold == 60
OffRouteThreshold == 1000
ArrivingThreshold == 100
MaxStopsLimit == 10

\* The clock advances in steps of the response cache's lifetime: an entry is
\* looked up at the age of 0 s (fresh), of 60 s (just expired) or later.
TickSteps == {60}

Procs == {"p1", "p2"}

\* None, a null cell, a key the mapping lacks
Missing == -1

None == [none |-> TRUE]

Max(a, b) == IF a >= b THEN a ELSE b
Min(a, b) == IF a <= b THEN a ELSE b

----------------------------------------------------------------------------
(* core/route_config.py *)

Station(id, lat, lon) == [id |-> id, lat |-> lat, lon |-> lon]

StationIds == {"campus", "bavdhan-guard-post", "fc-road", "vanaz-station", "anand-nagar-station"}

STATIONS ==
    [s \in StationIds |->
        CASE s = "campus"              -> Station(s, 0, 0)
          [] s = "bavdhan-guard-post"  -> Station(s, -3, 14)
          [] s = "vanaz-station"       -> Station(s, -8, 30)
          [] s = "anand-nagar-station" -> Station(s, -7, 34)
          [] s = "fc-road"             -> Station(s, -2, 47)]

RouteIds == {"campus-fcroad", "fcroad-campus", "campus-bavdhan", "bavdhan-campus"}

ROUTE_DEFINITIONS ==
    [r \in RouteIds |->
        CASE r = "campus-fcroad" ->
                [name |-> "Campus -> FC Road",
                 stops |-> <<"campus", "bavdhan-guard-post", "vanaz-station", "anand-nagar-station", "fc-road">>]
          [] r = "fcroad-campus" ->
                [name |-> "FC Road -> Campus",
                 stops |-> <<"fc-road", "anand-nagar-station", "vanaz-station", "bavdhan-guard-post", "campus">>]
          [] r = "campus-bavdhan" ->
                [name |-> "Campus -> Bavdhan Guard Post",
                 stops |-> <<"campus", "bavdhan-guard-post">>]
          [] r = "bavdhan-campus" ->
                [name |-> "Bavdhan Guard Post -> Campus",
                 stops |-> <<"bavdhan-guard-post", "campus">>]]

RECURSIVE SelectStations(_)
SelectStations(ids) ==
    IF ids = <<>> THEN <<>>
    ELSE IF Head(ids) \in DOMAIN STATIONS
         THEN <<STATIONS[Head(ids)]>> \o SelectStations(Tail(ids))
         ELSE SelectStations(Tail(ids))

get_route_stops(route_id) ==
    IF route_id \notin DOMAIN ROUTE_DEFINITIONS THEN <<>>
    ELSE SelectStations(ROUTE_DEFINITIONS[route_id].stops)

get_route_direction(route_id) ==
    IF route_id \notin DOMAIN ROUTE_DEFINITIONS THEN "Unknown"
    ELSE ROUTE_DEFINITIONS[route_id].name

RECURSIVE ISqrtIter(_, _, _)
ISqrtIter(n, lo, hi) ==
    IF lo >= hi THEN lo
    ELSE LET mid == (lo + hi + 1) \div 2
         IN  IF mid * mid <= n THEN ISqrtIter(n, mid, hi)
             ELSE ISqrtIter(n, lo, mid - 1)

\* floor of the square root
ISqrt(n) == ISqrtIter(n, 0, 46340)

\* Great-circle distance in metres; at road scale, the planar distance.
haversine_distance(lat1, lon1, lat2, lon2) ==
    ISqrt(62500 * ((lat2 - lat1) * (lat2 - lat1) + (lon2 - lon1) * (lon2 - lon1)))

----------------------------------------------------------------------------
(* services/osrm.py: OSRMService *)

Profiles == {"driving", "walking"}

\* avg_speeds, in hundredths of a metre per second
avg_speeds(profile) == IF profile = "walking" THEN 139 ELSE 1389

\* int() of a non-negative engine number given in tenths
IntOf(tenths) == tenths \div 10

\* "lon,lat;lon,lat;...": each <<lat, lon>> pair is written lon first
build_coords_string(coords) ==
    [i \in 1..Len(coords) |-> <<coords[i][2], coords[i][1]>>]

\* variant: an entry exactly as old as the lifetime still counts as fresh
get_from_cache_inclusive(cache, key, t) ==
    IF key \in DOMAIN cache
    THEN IF t - cache[key].timestamp <= CacheTtl
         THEN [found |-> TRUE, value |-> cache[key].value, cache |-> cache]
         ELSE [found |-> FALSE, value |-> None,
               cache |-> [k \in DOMAIN cache \ {key} |-> cache[k]]]
    ELSE [found |-> FALSE, value |-> None, cache |-> cache]

get_from_cache(cache, key, t) ==
    IF key \in DOMAIN cache
    THEN IF t - cache[key].timestamp < CacheTtl
         THEN [found |-> TRUE, value |-> cache[key].value, cache |-> cache]
         ELSE [found |-> FALSE, value |-> None,
               cache |-> [k \in DOMAIN cache \ {key} |-> cache[k]]]
    ELSE [found |-> FALSE, value |-> None, cache |-> cache]

\* how old the entry under key is (Missing: there is none)
EntryAge(cache, key, t) ==
    IF key \in DOMAIN cache THEN t - cache[key].timestamp ELSE Missing

set_cache(cache, key, value, t) ==
    [k \in DOMAIN cache \cup {key} |->
        IF k = key THEN [value |-> value, timestamp |-> t] ELSE cache[k]]

\* variant: the estimate is not marked as one
fallback_estimate_unmarked(origin, destination, profile) ==
    LET distance == haversine_distance(origin[1], origin[2], destination[1], destination[2])
    IN  [duration_seconds |-> (distance * 100) \div avg_speeds(profile),
         distance_meters  |-> distance,
         source           |-> "absent",
         osrm_request     |-> "None"]

fallback_estimate(origin, destination, profile) ==
    LET distance == haversine_distance(origin[1], origin[2], destination[1], destination[2])
    IN  [duration_seconds |-> (distance * 100) \div avg_speeds(profile),
         distance_meters  |-> distance,
         source           |-> "estimate_fallback",
         osrm_request     |-> "None"]

Returned(value, cache) == [raised |-> FALSE, value |-> value, cache |-> cache]
Raised(exc, cache)     == [raised |-> TRUE, value |-> exc, cache |-> cache]

HTTPException(status_code) == [exc |-> "HTTPException", status_code |-> status_code]

route_cache_key(origin, destination, profile) ==
    <<"route", build_coords_string(<<origin, destination>>), profile>>

table_cache_key(origin, destinations, profile) ==
    <<"table", build_coords_string(<<origin>> \o destinations), profile>>

\* variant: a client error (4xx) is raised to the caller, as get_table does
route_status_error_raising(cache, origin, destination, profile, status) ==
    IF status >= 500
    THEN Returned(fallback_estimate(origin, destination, profile), cache)
    ELSE Raised(HTTPException(503), cache)

\* get_route, except httpx.HTTPStatusError: both branches use the fallback
route_status_error(cache, origin, destination, profile, status) ==
    IF status >= 500
    THEN Returned(fallback_estimate(origin, destination, profile), cache)
    ELSE Returned(fallback_estimate(origin, destination, profile), cache)

\* get_route from the answer of the engine on: what it returns or raises, and the cache it leaves
get_route_response(cache, t, origin, destination, profile, resp) ==
    LET fallback == Returned(fallback_estimate(origin, destination, profile), cache)
    IN  CASE resp.kind = "timeout" -> fallback
          [] resp.kind = "status"  ->
                route_status_error(cache, origin, destination, profile, resp.status)
          [] resp.kind = "error"   -> fallback
          [] resp.kind = "body"    ->
                IF resp.code # "Ok" THEN fallback
                ELSE IF Len(resp.routes) = 0 THEN fallback
                ELSE LET route == resp.routes[1]
                     IN  IF route.duration = Missing \/ route.distance = Missing
                         THEN fallback
                         ELSE LET result == [duration_seconds |-> IntOf(route.duration),
                                             distance_meters  |-> IntOf(route.distance),
                                             source           |-> "absent",
                                             osrm_request     |-> "url"]
                              IN  Returned(result,
                                           set_cache(cache, route_cache_key(origin, destination, profile),
                                                     result, t))

\* data.get(name, [[]])[0]: a matrix the body lacks reads as one empty row;
\* a matrix that is there and has no row raises IndexError
IndexError(matrix) == matrix.present /\ Len(matrix.rows) = 0
FirstRow(matrix)   == IF matrix.present THEN matrix.rows[1] ELSE <<>>

\* variant: every error status uses the fallback, as get_route does
table_status_error_lenient(cache, origin, destinations, profile, status) ==
    Returned([i \in 1..Len(destinations) |->
                 fallback_estimate(origin, destinations[i], profile)], cache)

\* get_table, except httpx.HTTPStatusError: the fallback for a server error, else HTTPException(503)
table_status_error(cache, origin, destinations, profile, status) ==
    IF status >= 500
    THEN Returned([i \in 1..Len(destinations) |->
                      fallback_estimate(origin, destinations[i], profile)], cache)
    ELSE Raised(HTTPException(503), cache)

\* variant: one null cell makes every destination fall back
get_table_response_whole_batch(cache, t, origin, destinations, profile, resp) ==
    LET n == Len(destinations)
        fallbacks == Returned([i \in 1..n |-> fallback_estimate(origin, destinations[i], profile)], cache)
    IN  CASE resp.kind = "timeout" -> fallbacks
          [] resp.kind = "status"  ->
                table_status_error(cache, origin, destinations, profile, resp.status)
          [] resp.kind = "error"   -> fallbacks
          [] resp.kind = "body"    ->
                IF resp.code # "Ok" THEN Raised(HTTPException(503), cache)
                ELSE IF IndexError(resp.durations) THEN fallbacks
                ELSE IF IndexError(resp.distances) THEN fallbacks
                ELSE LET durations == FirstRow(resp.durations)
                         distances == FirstRow(resp.distances)
                     IN  IF Len(durations) # n \/ Len(distances) # n
                         THEN Raised(HTTPException(503), cache)
                         ELSE IF \E i \in 1..n : durations[i] = Missing \/ distances[i] = Missing
                         THEN fallbacks
                         ELSE LET results ==
                                    [i \in 1..n |->
                                        [duration_seconds |-> IntOf(durations[i]),
                                         distance_meters  |-> IntOf(distances[i]),
                                         source           |-> "absent",
                                         osrm_request     |-> "url"]]
                              IN  Returned(results,
                                           set_cache(cache, table_cache_key(origin, destinations, profile),
                                                     results, t))

\* get_table from the answer of the engine on
get_table_response(cache, t, origin, destinations, profile, resp) ==
    LET n == Len(destinations)
        fallbacks == Returned([i \in 1..n |-> fallback_estimate(origin, destinations[i], profile)], cache)
    IN  CASE resp.kind = "timeout" -> fallbacks
          [] resp.kind = "status"  ->
                table_status_error(cache, origin, destinations, profile, resp.status)
          [] resp.kind = "error"   -> fallbacks
          [] resp.kind = "body"    ->
                IF resp.code # "Ok" THEN Raised(HTTPException(503), cache)
                ELSE IF IndexError(resp.durations) THEN fallbacks
                ELSE IF IndexError(resp.distances) THEN fallbacks
                ELSE LET durations == FirstRow(resp.durations)
                         distances == FirstRow(resp.distances)
                     IN  IF Len(durations) # n \/ Len(distances) # n
                         THEN Raised(HTTPException(503), cache)
                         ELSE LET results ==
                                    [i \in 1..n |->
                                        IF durations[i] = Missing \/ distances[i] = Missing
                                        THEN fallback_estimate(origin, destinations[i], profile)
                                        ELSE [duration_seconds |-> IntOf(durations[i]),
                                              distance_meters  |-> IntOf(distances[i]),
                                              source           |-> "absent",
                                              osrm_request     |-> "url"]]
                              IN  Returned(results,
                                           set_cache(cache, table_cache_key(origin, destinations, profile),
                                                     results, t))

----------------------------------------------------------------------------
(* services/eta.py: ETAService, route progress *)

\* The squared distance from point to the segment, as the fraction num / den of
\* squared frame units, and the projection ratio t = tnum / tden, not clamped.
point_to_segment_distance(point, seg_start, seg_end) ==
    LET px  == point[2]
        py  == point[1]
        ax  == seg_start[2]
        ay  == seg_start[1]
        bx  == seg_end[2]
        by  == seg_end[1]
        abx == bx - ax
        aby == by - ay
        apx == px - ax
        apy == py - ay
        ab_sq == abx * abx + aby * aby
        dot   == apx * abx + apy * aby
        cross == apx * aby - apy * abx
    IN  IF ab_sq = 0
        THEN [num |-> apx * apx + apy * apy, den |-> 1, tnum |-> 0, tden |-> 1]
        ELSE IF dot <= 0          \* t_clamped = 0: the nearest point is seg_start
        THEN [num |-> apx * apx + apy * apy, den |-> 1, tnum |-> dot, tden |-> ab_sq]
        ELSE IF dot >= ab_sq      \* t_clamped = 1: the nearest point is seg_end
        THEN [num |-> (px - bx) * (px - bx) + (py - by) * (py - by), den |-> 1,
              tnum |-> dot, tden |-> ab_sq]
        ELSE [num |-> cross * cross, den |-> ab_sq, tnum |-> dot, tden |-> ab_sq]

\* dist < min_dist
DistLess(d, e) == d.num * e.den < e.num * d.den

\* dist > threshold, the threshold in metres (a multiple of the frame unit)
DistOver(d, metres) == d.num > (metres \div 250) * (metres \div 250) * d.den

\* variant: a segment as near as the best so far replaces it
RECURSIVE FindSegmentFrom_last(_, _, _, _, _)
FindSegmentFrom_last(current_location, route_stops, i, best_segment_idx, min_dist) ==
    IF i >= Len(route_stops) - 1 THEN best_segment_idx
    ELSE LET stop_a == route_stops[i + 1]
             stop_b == route_stops[i + 2]
             dist   == point_to_segment_distance(current_location,
                                                 <<stop_a.lat, stop_a.lon>>,
                                                 <<stop_b.lat, stop_b.lon>>)
         IN  IF min_dist = None \/ ~DistLess(min_dist, dist)
             THEN FindSegmentFrom_last(current_location, route_stops, i + 1, i, dist)
             ELSE FindSegmentFrom_last(current_location, route_stops, i + 1,
                                       best_segment_idx, min_dist)

\* the loop of _find_current_segment from index i (0-based) on
RECURSIVE FindSegmentFrom(_, _, _, _, _)
FindSegmentFrom(current_location, route_stops, i, best_segment_idx, min_dist) ==
    IF i >= Len(route_stops) - 1 THEN best_segment_idx
    ELSE LET stop_a == route_stops[i + 1]
             stop_b == route_stops[i + 2]
             dist   == point_to_segment_distance(current_location,
                                                 <<stop_a.lat, stop_a.lon>>,
                                                 <<stop_b.lat, stop_b.lon>>)
         IN  IF min_dist = None \/ DistLess(dist, min_dist)
             THEN FindSegmentFrom(current_location, route_stops, i + 1, i, dist)
             ELSE FindSegmentFrom(current_location, route_stops, i + 1, best_segment_idx, min_dist)

\* variant: a vehicle that projects beyond the end of the last segment is past every stop
find_current_segment_past_terminal(current_location, route_stops) ==
    LET idx == FindSegmentFrom(current_location, route_stops, 0, 0, None)
        n   == Len(route_stops)
    IN  IF n >= 2 /\ idx = n - 2
        THEN LET d == point_to_segment_distance(current_location,
                                                <<route_stops[n - 1].lat, route_stops[n - 1].lon>>,
                                                <<route_stops[n].lat, route_stops[n].lon>>)
             IN  IF d.tnum > d.tden THEN idx + 1 ELSE idx
        ELSE idx

\* the 0-based index of the segment nearest to the vehicle (min_dist = None: infinity)
find_current_segment(current_location, route_stops) ==
    FindSegmentFrom(current_location, route_stops, 0, 0, None)

\* variant: the stop the segment starts at is kept
filter_upcoming_stops_from_segment_start(current_location, route_stops) ==
    IF Len(route_stops) = 0 THEN <<>>
    ELSE IF Len(route_stops) = 1 THEN route_stops
    ELSE SubSeq(route_stops, find_current_segment(current_location, route_stops) + 1,
                Len(route_stops))

filter_upcoming_stops(current_location, route_stops) ==
    IF Len(route_stops) = 0 THEN <<>>
    ELSE IF Len(route_stops) = 1 THEN route_stops
    ELSE LET next_stop_idx == find_current_segment(current_location, route_stops) + 1
         IN  IF next_stop_idx >= Len(route_stops) THEN <<>>
             ELSE SubSeq(route_stops, next_stop_idx + 1, Len(route_stops))

\* the 0-based indices of the stops with the given id
IndicesOf(all_stops, id) == {i \in 0..(Len(all_stops) - 1) : all_stops[i + 1].id = id}

SetMin(S) == CHOOSE x \in S : \A y \in S : x <= y

\* variant: the distance is taken to the next stop, not to the segment that leads to it
is_off_route_to_stop(current_location, all_stops, upcoming_stops) ==
    IF Len(upcoming_stops) = 0 \/ Len(all_stops) = 0 THEN TRUE
    ELSE haversine_distance(current_location[1], current_location[2],
                            upcoming_stops[1].lat, upcoming_stops[1].lon) > OffRouteThreshold

is_off_route(current_location, all_stops, upcoming_stops) ==
    IF Len(upcoming_stops) = 0 \/ Len(all_stops) = 0 THEN TRUE
    ELSE LET next_stop == upcoming_stops[1]
         IN  IF IndicesOf(all_stops, next_stop.id) = {} THEN TRUE
             ELSE LET next_idx  == SetMin(IndicesOf(all_stops, next_stop.id))
                      prev_idx  == Max(0, next_idx - 1)
                      prev_stop == all_stops[prev_idx + 1]
                  IN  IF prev_stop.id = next_stop.id
                      THEN haversine_distance(current_location[1], current_location[2],
                                              next_stop.lat, next_stop.lon) > OffRouteThreshold
                      ELSE DistOver(point_to_segment_distance(current_location,
                                                              <<prev_stop.lat, prev_stop.lon>>,
                                                              <<next_stop.lat, next_stop.lon>>),
                                    OffRouteThreshold)

\* variant: the list is not cut
Slice_whole(seq, n) == seq

\* Python's seq[:n]
Slice(seq, n) ==
    IF n >= 0 THEN SubSeq(seq, 1, Min(n, Len(seq)))
    ELSE SubSeq(seq, 1, Max(Len(seq) + n, 0))

----------------------------------------------------------------------------
(* services/eta.py: ETAService, the segment-distance cache *)

\* f"{from_station.id}->{to_station.id}"
segment_key(from_station, to_station) == <<from_station.id, to_station.id>>

Put(map, key, value) ==
    [k \in DOMAIN map \cup {key} |-> IF k = key THEN value ELSE map[k]]

\* variant: the per-route map is created anew on every call
segment_lookup_reset(cache, route_id, key) ==
    [found |-> FALSE, value |-> Missing, cache |-> Put(cache, route_id, << >>)]

\* variant: the key is looked up in the outer dictionary, where it never is
segment_lookup_outer(cache, route_id, key) ==
    LET created == IF route_id \in DOMAIN cache THEN cache ELSE Put(cache, route_id, << >>)
    IN  [found |-> FALSE, value |-> Missing, cache |-> created]

\* the cache check: the per-route map is created on first use, then the key is looked up
segment_lookup(cache, route_id, key) ==
    LET created == IF route_id \in DOMAIN cache THEN cache ELSE Put(cache, route_id, << >>)
        found   == key \in DOMAIN created[route_id]
    IN  [found |-> found,
         value |-> IF found THEN created[route_id][key] ELSE Missing,
         cache |-> created]

\* variant: the duration is cached in place of the distance
segment_store_duration(cache, route_id, from_station, to_station, out) ==
    IF ~out.raised /\ out.value.distance_meters > 0
    THEN [value  |-> out.value.distance_meters,
          stored |-> TRUE,
          cache  |-> [cache EXCEPT ![route_id] =
                         Put(@, segment_key(from_station, to_station), out.value.duration_seconds)]]
    ELSE [value  |-> haversine_distance(from_station.lat, from_station.lon,
                                        to_station.lat, to_station.lon),
          stored |-> FALSE,
          cache  |-> cache]

\* variant: the distance is stored in a new map for the route
segment_store_new_map(cache, route_id, from_station, to_station, out) ==
    IF ~out.raised /\ out.value.distance_meters > 0
    THEN [value  |-> out.value.distance_meters,
          stored |-> TRUE,
          cache  |-> [cache EXCEPT ![route_id] =
                         Put(<< >>, segment_key(from_station, to_station),
                             out.value.distance_meters)]]
    ELSE [value  |-> haversine_distance(from_station.lat, from_station.lon,
                                        to_station.lat, to_station.lon),
          stored |-> FALSE,
          cache  |-> cache]

\* from the outcome of get_route on: cache and return its distance, or fall back to haversine
segment_store(cache, route_id, from_station, to_station, out) ==
    IF ~out.raised /\ out.value.distance_meters > 0
    THEN [value  |-> out.value.distance_meters,
          stored |-> TRUE,
          cache  |-> [cache EXCEPT ![route_id] =
                         Put(@, segment_key(from_station, to_station), out.value.distance_meters)]]
    ELSE [value  |-> haversine_distance(from_station.lat, from_station.lon,
                                        to_station.lat, to_station.lon),
          stored |-> FALSE,
          cache  |-> cache]

\* _get_segment_distance after a miss of the segment cache (look), cached the lookup
\* of get_route in the response cache and age the age of the entry it found
segment_miss(look, cached, age, route_id, from_station, to_station) ==
    IF cached.found
    THEN LET st == segment_store(look.cache, route_id, from_station, to_station,
                                 Returned(cached.value, cached.cache))
         IN  [done |-> TRUE, value |-> st.value, segCache |-> st.cache,
              osrmCache |-> cached.cache, stored |-> st.stored, route |-> cached.value,
              reqs |-> 0, age |-> age]
    ELSE [done |-> FALSE, value |-> Missing, segCache |-> look.cache,
          osrmCache |-> cached.cache, stored |-> FALSE, route |-> None, reqs |-> 1,
          age |-> age]

\* _get_segment_distance from its cache check (look) on
segment_checked(look, oc, t, route_id, from_station, to_station, rkey) ==
    IF look.found
    THEN [done |-> TRUE, value |-> look.value, segCache |-> look.cache, osrmCache |-> oc,
          stored |-> FALSE, route |-> None, reqs |-> 0, age |-> Missing]
    ELSE segment_miss(look, get_from_cache(oc, rkey, t), EntryAge(oc, rkey, t),
                      route_id, from_station, to_station)

\* variant: the segment cache is consulted under a key that names the mode
get_segment_distance_begin_per_mode(sc, oc, t, route_id, from_station, to_station, mode) ==
    segment_checked(segment_lookup(sc, route_id, <<from_station.id, to_station.id, mode>>),
                    oc, t, route_id, from_station, to_station,
                    route_cache_key(<<from_station.lat, from_station.lon>>,
                                    <<to_station.lat, to_station.lon>>, mode))

\* _get_segment_distance up to the HTTP request of get_route, or to its return
get_segment_distance_begin(sc, oc, t, route_id, from_station, to_station, mode) ==
    segment_checked(segment_lookup(sc, route_id, segment_key(from_station, to_station)),
                    oc, t, route_id, from_station, to_station,
                    route_cache_key(<<from_station.lat, from_station.lon>>,
                                    <<to_station.lat, to_station.lon>>, mode))

\* _get_segment_distance from the return of get_route (out) to its own
segment_returned(sc, route_id, from_station, to_station, out) ==
    LET st == segment_store(sc, route_id, from_station, to_station, out)
    IN  [value |-> st.value, segCache |-> st.cache, osrmCache |-> out.cache,
         stored |-> st.stored, route |-> out.value]

\* _get_segment_distance from the engine's answer to its return
get_segment_distance_response(sc, oc, t, route_id, from_station, to_station, mode, resp) ==
    segment_returned(sc, route_id, from_station, to_station,
                     get_route_response(oc, t, <<from_station.lat, from_station.lon>>,
                                        <<to_station.lat, to_station.lon>>, mode, resp))

----------------------------------------------------------------------------
(* services/eta.py: ETAService, the ETA of the upcoming stops *)

StopWithETA(stop, eta_seconds, distance_meters, status, source, osrm_request) ==
    [stop_id |-> stop.id, lat |-> stop.lat, lon |-> stop.lon,
     eta_seconds |-> eta_seconds, distance_meters |-> distance_meters,
     status |-> status, source |-> source, osrm_request |-> osrm_request]

\* progress_ratio in thousandths
SegmentProgress(from_station, to_station, total_distance, remaining_distance, progress_ratio) ==
    [from_stop |-> from_station.id, to_stop |-> to_station.id,
     total_distance_meters |-> total_distance,
     remaining_distance_meters |-> remaining_distance,
     progress_ratio |-> progress_ratio]

\* variant: the error result reports the vehicle on the route
build_error_response_on_route(route_id, direction, is_stale, error_msg) ==
    [route_id |-> route_id, direction |-> direction, upcoming_stops |-> <<>>,
     off_route |-> FALSE, stale |-> is_stale, error |-> error_msg]

build_error_response(route_id, direction, is_stale, error_msg) ==
    [route_id |-> route_id, direction |-> direction, upcoming_stops |-> <<>>,
     off_route |-> TRUE, stale |-> is_stale, error |-> error_msg]

\* OSRMService.get_route_with_waypoints from the engine's answer on: the legs of
\* routes[0], or nothing when the answer carries no per-leg data; an unexpected
\* error inside the call surfaces to the caller
get_route_with_waypoints_response(resp) ==
    IF resp.kind = "error" THEN [raised |-> TRUE, value |-> None]
    ELSE IF resp.kind \in {"timeout", "status"} THEN [raised |-> FALSE, value |-> None]
    ELSE IF resp.code # "Ok" \/ Len(resp.routes) = 0 THEN [raised |-> FALSE, value |-> None]
    ELSE IF "legs" \notin DOMAIN resp.routes[1] THEN [raised |-> FALSE, value |-> None]
    ELSE [raised |-> FALSE, value |-> [legs |-> resp.routes[1].legs, osrm_request |-> "url"]]

\* variant: each entry carries its own leg, not the sum of the legs so far
RECURSIVE EtasFrom_per_leg(_, _, _, _, _, _)
EtasFrom_per_leg(route_result, stops, i, accumulated_duration, accumulated_distance, stops_with_eta) ==
    LET legs == route_result.legs
    IN  IF i >= Len(legs) \/ i >= Len(stops)
        THEN [raised |-> FALSE, value |-> stops_with_eta]
        ELSE LET leg  == legs[i + 1]
                 stop == stops[i + 1]
                 status == IF i = 0 /\ leg.distance < ArrivingThreshold * 10
                           THEN "arriving" ELSE "upcoming"
             IN  IF leg.duration = Missing \/ leg.distance = Missing
                 THEN [raised |-> TRUE, value |-> <<>>]
                 ELSE EtasFrom_per_leg(route_result, stops, i + 1, 0, 0,
                                       Append(stops_with_eta,
                                              StopWithETA(stop, IntOf(leg.duration),
                                                          IntOf(leg.distance), status, "osrm",
                                                          route_result.osrm_request)))

\* the loop of _calculate_etas from leg i (0-based) on; the sums are in tenths
RECURSIVE EtasFrom(_, _, _, _, _, _)
EtasFrom(route_result, stops, i, accumulated_duration, accumulated_distance, stops_with_eta) ==
    LET legs == route_result.legs
    IN  IF i >= Len(legs) \/ i >= Len(stops)
        THEN [raised |-> FALSE, value |-> stops_with_eta]
        ELSE LET leg  == legs[i + 1]
                 stop == stops[i + 1]
                 dur  == accumulated_duration + leg.duration
                 dist == accumulated_distance + leg.distance
                 status == IF i = 0 /\ dist < ArrivingThreshold * 10
                           THEN "arriving" ELSE "upcoming"
             IN  IF leg.duration = Missing \/ leg.distance = Missing    \* KeyError
                 THEN [raised |-> TRUE, value |-> <<>>]
                 ELSE EtasFrom(route_result, stops, i + 1, dur, dist,
                               Append(stops_with_eta,
                                      StopWithETA(stop, IntOf(dur), IntOf(dist), status, "osrm",
                                                  route_result.osrm_request)))

\* _calculate_etas from the outcome of the waypoint call on
calculate_etas(stops, out) ==
    IF out.raised THEN [raised |-> TRUE, value |-> <<>>]
    ELSE IF out.value = None \/ "legs" \notin DOMAIN out.value
    THEN [raised |-> FALSE, value |-> <<>>]
    ELSE EtasFrom(out.value, stops, 0, 0, 0, <<>>)

\* variant: an exception of _calculate_etas is let through
guarded_etas_unguarded(calc) == calc

\* try: stops_with_eta = await self._calculate_etas(...)  except Exception: stops_with_eta = []
guarded_etas(calc) ==
    IF calc.raised THEN [raised |-> FALSE, value |-> <<>>] ELSE calc

static_stops(stops_slice) ==
    [i \in 1..Len(stops_slice) |->
        StopWithETA(stops_slice[i], -1, -1, "upcoming", "estimate_fallback", "None")]

\* variant: no static list is built
failsafe_none(stops_with_eta, stops_slice) == stops_with_eta

\* the failsafe: an empty result becomes the static list of the slice
failsafe(stops_with_eta, stops_slice) ==
    IF Len(stops_with_eta) = 0 THEN static_stops(stops_slice) ELSE stops_with_eta

\* variant: the off-route flag is not consulted
segment_wanted_any(is_off_route_flag, upcoming_stops_list, stops_with_eta) ==
    Len(upcoming_stops_list) > 0 /\ Len(stops_with_eta) > 0

\* if not is_off_route_flag and upcoming_stops_list and stops_with_eta:
segment_wanted(is_off_route_flag, upcoming_stops_list, stops_with_eta) ==
    ~is_off_route_flag /\ Len(upcoming_stops_list) > 0 /\ Len(stops_with_eta) > 0

\* the remaining distance to to_station: the routed distance of its entry in
\* stops_with_eta when there is one and it is positive, else the haversine distance
remaining_distance(current_location, to_station, stops_with_eta) ==
    LET hits == {i \in 1..Len(stops_with_eta) : stops_with_eta[i].stop_id = to_station.id}
        haversine == haversine_distance(current_location[1], current_location[2],
                                        to_station.lat, to_station.lon)
    IN  IF hits = {} THEN haversine
        ELSE LET stop_eta == stops_with_eta[SetMin(hits)]
             IN  IF stop_eta.source = "osrm" /\ stop_eta.distance_meters > 0
                 THEN stop_eta.distance_meters
                 ELSE haversine

\* variant: the ratio is not clamped
progress_ratio_unclamped(total_distance, remaining) ==
    IF total_distance > 0
    THEN ((total_distance - remaining) * 1000) \div total_distance
    ELSE 0

\* max(0.0, min(1.0, (total - remaining) / total if total > 0 else 0.0)), in thousandths
progress_ratio(total_distance, remaining) ==
    Max(0, Min(1000, IF total_distance > 0
                     THEN ((total_distance - remaining) * 1000) \div total_distance
                     ELSE 0))

\* the distance written last for the key (Missing: none yet)
LastWritten(route_id, key) ==
    IF <<route_id, key>> \in DOMAIN written THEN written[<<route_id, key>>] ELSE Missing

\* variant: an off-route vehicle gets no ETA computation
progress_of_blocking(route_stops, current_location, max_stops) ==
    LET upcoming_stops_list == filter_upcoming_stops(current_location, route_stops)
        is_off_route_flag == is_off_route(current_location, route_stops, upcoming_stops_list)
    IN  [route_stops |-> route_stops,
         upcoming_stops_list |-> upcoming_stops_list,
         is_off_route_flag |-> is_off_route_flag,
         stops_slice |-> IF is_off_route_flag THEN <<>>
                         ELSE Slice(upcoming_stops_list, Min(max_stops, MaxStopsLimit))]

\* steps 3 and 4 of get_upcoming_stops_eta for the stops of a route: the progress,
\* the flag, the slice
progress_of(route_stops, current_location, max_stops) ==
    LET upcoming_stops_list == filter_upcoming_stops(current_location, route_stops)
    IN  [route_stops |-> route_stops,
         upcoming_stops_list |-> upcoming_stops_list,
         is_off_route_flag |-> is_off_route(current_location, route_stops, upcoming_stops_list),
         stops_slice |-> Slice(upcoming_stops_list, Min(max_stops, MaxStopsLimit))]

\* steps 2 to 4 of get_upcoming_stops_eta: the stops, the progress, the flag, the slice
route_progress(route_id, current_location, max_stops) ==
    progress_of(get_route_stops(route_id), current_location, max_stops)

eta_result(route_id, current_segment, stops_with_eta, is_off_route_flag, is_stale) ==
    [route_id |-> route_id, direction |-> get_route_direction(route_id),
     current_segment |-> current_segment, upcoming_stops |-> stops_with_eta,
     off_route |-> is_off_route_flag, stale |-> is_stale]

\* variant: the segment runs from the stop behind the vehicle to the end of the route
segment_at_terminal(rp, idx, stops_with_eta) ==
    LET in_range == idx >= 0 /\ idx < Len(rp.route_stops) - 1
        to_station_in_upcoming ==
            \E i \in 1..Len(rp.upcoming_stops_list) :
                rp.upcoming_stops_list[i].id = rp.route_stops[Len(rp.route_stops)].id
    IN  IF /\ segment_wanted(rp.is_off_route_flag, rp.upcoming_stops_list, stops_with_eta)
           /\ in_range
           /\ to_station_in_upcoming
        THEN [wanted |-> TRUE, from_station |-> rp.route_stops[idx + 1],
              to_station |-> rp.route_stops[Len(rp.route_stops)]]
        ELSE [wanted |-> FALSE]

\* step 7 up to the choice of the segment, idx the index _find_current_segment gave:
\* [wanted, from_station, to_station]
segment_at(rp, idx, stops_with_eta) ==
    LET in_range == idx >= 0 /\ idx < Len(rp.route_stops) - 1
        to_station_in_upcoming ==
            \E i \in 1..Len(rp.upcoming_stops_list) :
                rp.upcoming_stops_list[i].id = rp.route_stops[idx + 2].id
    IN  IF /\ segment_wanted(rp.is_off_route_flag, rp.upcoming_stops_list, stops_with_eta)
           /\ in_range
           /\ to_station_in_upcoming
        THEN [wanted |-> TRUE, from_station |-> rp.route_stops[idx + 1],
              to_station |-> rp.route_stops[idx + 2]]
        ELSE [wanted |-> FALSE]

\* the segment the vehicle is on, when step 7 computes one
segment_choice(rp, current_location, stops_with_eta) ==
    segment_at(rp, find_current_segment(current_location, rp.route_stops), stops_with_eta)

\* the end of step 7 and step 8, once the total distance of the segment is known
segment_result(route_id, rp, seg, current_location, is_stale, stops_with_eta, total_distance) ==
    LET remaining == remaining_distance(current_location, seg.to_station, stops_with_eta)
    IN  eta_result(route_id,
                   SegmentProgress(seg.from_station, seg.to_station, total_distance, remaining,
                                   progress_ratio(total_distance, remaining)),
                   stops_with_eta, rp.is_off_route_flag, is_stale)

\* step 7 from the cache check of _get_segment_distance (b) on
compute_progress(route_id, rp, current_location, is_stale, stops_with_eta, seg, b) ==
    [done |-> b.done, raised |-> FALSE,
     value |-> IF b.done
               THEN segment_result(route_id, rp, seg, current_location, is_stale,
                                   stops_with_eta, b.value)
               ELSE None,
     segCache |-> b.segCache, osrmCache |-> b.osrmCache, stored |-> b.stored,
     route |-> b.route, reqs |-> b.reqs, age |-> b.age,
     late |-> LastWritten(route_id, segment_key(seg.from_station, seg.to_station)),
     key |-> segment_key(seg.from_station, seg.to_station),
     stops_with_eta |-> stops_with_eta, seg |-> seg]

\* variant: a stale position gets no current segment
compute_segment_fresh_only(sc, oc, t, route_id, rp, current_location, mode, is_stale, stops_with_eta, seg) ==
    IF ~seg.wanted \/ is_stale
    THEN [done |-> TRUE, raised |-> FALSE,
          value |-> eta_result(route_id, None, stops_with_eta, rp.is_off_route_flag, is_stale),
          segCache |-> sc, osrmCache |-> oc, stored |-> FALSE, route |-> None,
          reqs |-> 0, age |-> Missing, late |-> Missing, key |-> <<>>,
          stops_with_eta |-> stops_with_eta, seg |-> [wanted |-> FALSE]]
    ELSE compute_progress(route_id, rp, current_location, is_stale, stops_with_eta, seg,
                          get_segment_distance_begin(sc, oc, t, route_id, seg.from_station,
                                                     seg.to_station, mode))

\* step 7 from the chosen segment (seg) on
compute_segment(sc, oc, t, route_id, rp, current_location, mode, is_stale, stops_with_eta, seg) ==
    IF ~seg.wanted
    THEN [done |-> TRUE, raised |-> FALSE,
          value |-> eta_result(route_id, None, stops_with_eta, rp.is_off_route_flag, is_stale),
          segCache |-> sc, osrmCache |-> oc, stored |-> FALSE, route |-> None,
          reqs |-> 0, age |-> Missing, late |-> Missing, key |-> <<>>,
          stops_with_eta |-> stops_with_eta, seg |-> seg]
    ELSE compute_progress(route_id, rp, current_location, is_stale, stops_with_eta, seg,
                          get_segment_distance_begin(sc, oc, t, route_id, seg.from_station,
                                                     seg.to_station, mode))

\* steps 7 and 8, to the HTTP request of _get_segment_distance or to the return
compute_step_7(sc, oc, t, route_id, rp, current_location, mode, is_stale, stops_with_eta) ==
    compute_segment(sc, oc, t, route_id, rp, current_location, mode, is_stale, stops_with_eta,
                    segment_choice(rp, current_location, stops_with_eta))

\* steps 5 to 8 after the waypoint call, etas the guarded outcome of _calculate_etas
compute_failsafe(sc, oc, t, route_id, rp, current_location, mode, is_stale, etas) ==
    IF etas.raised
    THEN [done |-> TRUE, raised |-> TRUE, value |-> None,
          segCache |-> sc, osrmCache |-> oc, stored |-> FALSE, route |-> None,
          reqs |-> 0, age |-> Missing, late |-> Missing, key |-> <<>>,
          stops_with_eta |-> <<>>, seg |-> [wanted |-> FALSE]]
    ELSE compute_step_7(sc, oc, t, route_id, rp, current_location, mode, is_stale,
                        IF Len(rp.stops_slice) = 0 THEN <<>>
                        ELSE failsafe(etas.value, rp.stops_slice))

\* steps 5 to 8, from the outcome of _calculate_etas (calc) to the HTTP request of
\* _get_segment_distance, or to the return
compute_after_etas(sc, oc, t, route_id, rp, current_location, mode, is_stale, calc) ==
    compute_failsafe(sc, oc, t, route_id, rp, current_location, mode, is_stale,
                     guarded_etas(calc))

----------------------------------------------------------------------------
(* What the routing engine may answer to one HTTP request *)

Timeout       == [kind |-> "timeout"]
ClientError   == [kind |-> "error"]
HttpStatus(c) == [kind |-> "status", status |-> c]

RouteBody(code, routes) == [kind |-> "body", code |-> code, routes |-> routes]

TableBody(code, durations, distances) ==
    [kind |-> "body", code |-> code, durations |-> durations, distances |-> distances]

Failures == {Timeout, ClientError, HttpStatus(404), HttpStatus(504)}

\* routes[0] of a route answer, numbers in tenths
EngineRoutes ==
    { [duration |-> 3005, distance |-> 42007],
      [duration |-> 3300, distance |-> 45009],
      [duration |-> 4,    distance |-> 8],
      [duration |-> 3005, distance |-> Missing] }

RouteResponses ==
    Failures \cup {RouteBody("NoRoute", <<>>), RouteBody("Ok", <<>>)}
             \cup {RouteBody("Ok", <<r>>) : r \in EngineRoutes}

Leg(duration, distance) == [duration |-> duration, distance |-> distance]

\* the legs of a waypoint answer for n stops, numbers in tenths: complete, with a
\* first leg shorter than a metre, one leg short, one leg more, none, without distances
EngineLegs(n) ==
    { [i \in 1..n |-> Leg(1205 + i, 9507)],
      [i \in 1..n |-> IF i = 1 THEN Leg(4, 8) ELSE Leg(1205 + i, 9507)],
      [i \in 1..(n - 1) |-> Leg(1205 + i, 9507)],
      [i \in 1..(n + 1) |-> Leg(1205 + i, 9507)],
      <<>>,
      [i \in 1..n |-> Leg(1205 + i, Missing)] }

WaypointResponses(n) ==
    Failures \cup {RouteBody("NoRoute", <<>>), RouteBody("Ok", <<>>),
                   RouteBody("Ok", <<Leg(3005, 42007)>>)}
             \cup {RouteBody("Ok", <<[legs |-> l]>>) : l \in EngineLegs(n)}

Matrix(rows) == [present |-> TRUE, rows |-> rows]
Absent       == [present |-> FALSE, rows |-> <<>>]

\* the first row of a table answer for n destinations: complete, with a null cell, too short
EngineRows(n) ==
    { [i \in 1..n |-> 3005 + i], [i \in 1..n |-> IF i = 1 THEN Missing ELSE 3005 + i],
      [i \in 1..(n - 1) |-> 3005 + i] }

TableResponses(n) ==
    Failures \cup {TableBody("NoRoute", Absent, Absent), TableBody("Ok", Absent, Absent),
                   TableBody("Ok", Matrix(<<>>), Matrix(<<>>))}
             \cup {TableBody("Ok", Matrix(<<d>>), Matrix(<<[i \in 1..n |-> 42007 + i]>>)) : d \in EngineRows(n)}
             \cup {TableBody("Ok", Matrix(<<[i \in 1..n |-> 3005 + i]>>), Matrix(<<d>>)) : d \in EngineRows(n)}

----------------------------------------------------------------------------
(* Call slots *)

NoArgs  == [op |-> "none"]
NoLocal == [none |-> TRUE]
NoRet   == [raised |-> FALSE, value |-> None]

\* reqs: HTTP requests the call has issued; age: the age of the response-cache entry
\* its lookup found (Missing: no entry); resp: the engine's last answer to it
\* stored: the call wrote the segment-distance cache; route: what get_route gave it;
\* late: the distance already stored for the call's segment when it began (Missing: none)
\* wp: waypoint requests the call has issued; wpout: what the waypoint call gave it
NoHist  == [reqs |-> 0, age |-> Missing, resp |-> None, stored |-> FALSE, route |-> None,
            late |-> Missing, wp |-> 0, wpout |-> None]

Coord(station_id) == <<STATIONS[station_id].lat, STATIONS[station_id].lon>>

\* the calls the model makes: one stop pair in both profiles, one table query
RouteQueries ==
    { [origin |-> Coord("campus"), destination |-> Coord("bavdhan-guard-post"), profile |-> f]
        : f \in Profiles }

TableQueries ==
    { [origin |-> Coord("campus"),
       destinations |-> <<Coord("bavdhan-guard-post"), Coord("vanaz-station")>>,
       profile |-> "driving"] }

\* the same stop pair on two routes, and in two modes
SegmentQueries ==
    { [route_id |-> "campus-fcroad", from |-> "campus", to |-> "bavdhan-guard-post", mode |-> "driving"],
      [route_id |-> "campus-fcroad", from |-> "campus", to |-> "bavdhan-guard-post", mode |-> "walking"],
      [route_id |-> "campus-bavdhan", from |-> "campus", to |-> "bavdhan-guard-post", mode |-> "driving"] }

\* where the vehicle is: on the first segment, far off the route, past the last stop
Positions == {<<-1, 7>>, <<20, 7>>, <<-2, 52>>}

\* how old the position is
Ages == {60, 61}

\* how many stops the caller asks for: the API admits 1 to 10, the service any integer
MaxStopsChoices == {-1, 0, 2}

ComputeQueries ==
    { [route_id |-> r, current_location |-> l, age |-> a, max_stops |-> m, mode |-> "driving"]
        : r \in {"campus-fcroad", "campus-bavdhan"}, l \in Positions,
          a \in Ages, m \in MaxStopsChoices }
    \cup { [route_id |-> "no-such-route", current_location |-> <<-1, 7>>, age |-> a,
            max_stops |-> 2, mode |-> "driving"] : a \in Ages }

\* no call in progress in the slot: none yet, the last one returned, or it was abandoned
Free(p) == pc[p] \in {"idle", "done", "cancelled"}

Init ==
    /\ now = 0
    /\ osrmCache = << >>
    /\ segCache = << >>
    /\ pc = [p \in Procs |-> "idle"]
    /\ args = [p \in Procs |-> NoArgs]
    /\ local = [p \in Procs |-> NoLocal]
    /\ ret = [p \in Procs |-> NoRet]
    /\ hist = [p \in Procs |-> NoHist]
    /\ started = 0
    /\ written = << >>

\* datetime.utcnow() moves on
Tick ==
    /\ now < MaxTicks * 60
    /\ \E d \in TickSteps : now' = now + d
    /\ UNCHANGED <<osrmCache, segCache, pc, args, local, ret, hist, started, written>>

\* get_route up to its HTTP request (or to its return, on a cache hit)
StartRoute(p) ==
    /\ Free(p)
    /\ started < MaxCalls
    /\ \E q \in RouteQueries :
          LET profile == q.profile
              key  == route_cache_key(q.origin, q.destination, profile)
              look == get_from_cache(osrmCache, key, now)
          IN  /\ args' = [args EXCEPT ![p] = [op |-> "get_route", origin |-> q.origin,
                                              destination |-> q.destination, profile |-> profile]]
              /\ osrmCache' = look.cache
              /\ hist' = [hist EXCEPT ![p] = [NoHist EXCEPT !.reqs = IF look.found THEN 0 ELSE 1,
                                                            !.age = EntryAge(osrmCache, key, now)]]
              /\ IF look.found
                 THEN /\ pc' = [pc EXCEPT ![p] = "done"]
                      /\ ret' = [ret EXCEPT ![p] = [raised |-> FALSE, value |-> look.value]]
                 ELSE /\ pc' = [pc EXCEPT ![p] = "route_wait"]
                      /\ ret' = [ret EXCEPT ![p] = NoRet]
    /\ started' = started + 1
    /\ UNCHANGED <<now, segCache, local, written>>

\* _get_segment_distance for the query q, b what it comes to before the HTTP request
SegmentBegin(p, q, k, b) ==
    /\ args' = [args EXCEPT ![p] = [op |-> "get_segment_distance", route_id |-> q.route_id,
                                    from_station |-> STATIONS[q.from],
                                    to_station |-> STATIONS[q.to], mode |-> q.mode]]
    /\ segCache' = b.segCache
    /\ osrmCache' = b.osrmCache
    /\ hist' = [hist EXCEPT ![p] = [NoHist EXCEPT !.reqs = b.reqs, !.age = b.age,
                                                  !.stored = b.stored, !.route = b.route,
                                                  !.late = LastWritten(q.route_id, k)]]
    /\ written' = IF b.stored THEN Put(written, <<q.route_id, k>>, b.value) ELSE written
    /\ pc' = [pc EXCEPT ![p] = IF b.done THEN "done" ELSE "route_wait"]
    /\ ret' = [ret EXCEPT ![p] = IF b.done THEN [raised |-> FALSE, value |-> b.value]
                                 ELSE NoRet]

\* _get_segment_distance up to the HTTP request of get_route, or to its return
StartSegment(p) ==
    /\ Free(p)
    /\ started < MaxCalls
    /\ \E q \in SegmentQueries :
          SegmentBegin(p, q, segment_key(STATIONS[q.from], STATIONS[q.to]),
                       get_segment_distance_begin(segCache, osrmCache, now, q.route_id,
                                                  STATIONS[q.from], STATIONS[q.to], q.mode))
    /\ started' = started + 1
    /\ UNCHANGED <<now, local>>

\* get_route from the engine's answer to its return (out)
RouteFinish(p, resp, out) ==
    /\ osrmCache' = out.cache
    /\ segCache' = segCache
    /\ written' = written
    /\ ret' = [ret EXCEPT ![p] = [raised |-> out.raised, value |-> out.value]]
    /\ hist' = [hist EXCEPT ![p].resp = resp]

\* _get_segment_distance from the return of get_route to its own (r)
SegmentFinish(p, r) ==
    /\ osrmCache' = r.osrmCache
    /\ segCache' = r.segCache
    /\ ret' = [ret EXCEPT ![p] = [raised |-> FALSE, value |-> r.value]]
    /\ hist' = [hist EXCEPT ![p].stored = r.stored, ![p].route = r.route]
    /\ written' = IF r.stored
                  THEN Put(written, <<args[p].route_id,
                                      segment_key(args[p].from_station, args[p].to_station)>>,
                           r.value)
                  ELSE written

\* get_upcoming_stops_eta from the return of _get_segment_distance (r) to its own
ComputeFinish(p, seg, r) ==
    /\ osrmCache' = r.osrmCache
    /\ segCache' = r.segCache
    /\ ret' = [ret EXCEPT ![p] =
                 [raised |-> FALSE,
                  value |-> segment_result(args[p].route_id, local[p].rp, seg,
                                           args[p].current_location, local[p].is_stale,
                                           local[p].stops_with_eta, r.value)]]
    /\ hist' = [hist EXCEPT ![p].stored = r.stored, ![p].route = r.route]
    /\ written' = IF r.stored
                  THEN Put(written, <<args[p].route_id,
                                      segment_key(seg.from_station, seg.to_station)>>, r.value)
                  ELSE written

\* variant: a request that timed out is sent again
route_answered_retry(resp) == IF resp.kind = "timeout" THEN "route_wait" ELSE "done"

\* where the caller of get_route stands once the request has ended: get_route has one
\* client.get and returns after it, whatever the answer (no loop around the request)
route_answered(resp) == "done"

\* the engine answers the HTTP request of get_route: get_route returns, and its caller runs on
RouteResponse(p) ==
    /\ pc[p] = "route_wait"
    /\ \E resp \in RouteResponses :
          /\ IF args[p].op = "get_route"
             THEN RouteFinish(p, resp,
                              get_route_response(osrmCache, now, args[p].origin,
                                                 args[p].destination, args[p].profile, resp))
             ELSE IF args[p].op = "compute"
             THEN ComputeFinish(p, local[p].seg,
                                get_segment_distance_response(segCache, osrmCache, now,
                                                              args[p].route_id,
                                                              local[p].seg.from_station,
                                                              local[p].seg.to_station,
                                                              args[p].mode, resp))
             ELSE SegmentFinish(p,
                                get_segment_distance_response(segCache, osrmCache, now,
                                                              args[p].route_id,
                                                              args[p].from_station,
                                                              args[p].to_station,
                                                              args[p].mode, resp))
          /\ pc' = [pc EXCEPT ![p] = route_answered(resp)]
    /\ UNCHANGED <<now, args, local, started>>

\* get_table up to its HTTP request (or to its return, on a cache hit)
StartTable(p) ==
    /\ Free(p)
    /\ started < MaxCalls
    /\ \E q \in TableQueries :
          LET profile == q.profile
              key  == table_cache_key(q.origin, q.destinations, profile)
              look == get_from_cache(osrmCache, key, now)
              hit  == look.found /\ Len(look.value) > 0
          IN  /\ args' = [args EXCEPT ![p] = [op |-> "get_table", origin |-> q.origin,
                                              destinations |-> q.destinations, profile |-> profile]]
              /\ osrmCache' = look.cache
              /\ hist' = [hist EXCEPT ![p] = [NoHist EXCEPT !.reqs = IF hit THEN 0 ELSE 1,
                                                            !.age = EntryAge(osrmCache, key, now)]]
              /\ IF hit
                 THEN /\ pc' = [pc EXCEPT ![p] = "done"]
                      /\ ret' = [ret EXCEPT ![p] = [raised |-> FALSE, value |-> look.value]]
                 ELSE /\ pc' = [pc EXCEPT ![p] = "table_wait"]
                      /\ ret' = [ret EXCEPT ![p] = NoRet]
    /\ started' = started + 1
    /\ UNCHANGED <<now, segCache, local, written>>

\* get_table from the engine's answer to its return
TableResponse(p) ==
    /\ pc[p] = "table_wait"
    /\ \E resp \in TableResponses(Len(args[p].destinations)) :
          LET out == get_table_response(osrmCache, now, args[p].origin, args[p].destinations,
                                        args[p].profile, resp)
          IN  /\ osrmCache' = out.cache
              /\ ret' = [ret EXCEPT ![p] = [raised |-> out.raised, value |-> out.value]]
              /\ hist' = [hist EXCEPT ![p].resp = resp]
    /\ pc' = [pc EXCEPT ![p] = "done"]
    /\ UNCHANGED <<now, segCache, args, local, started, written>>

\* is_stale = (now_utc - location_timestamp).total_seconds() > stale_threshold_seconds
stale_check(t, location_timestamp) == (t - location_timestamp) > StaleThreshold

\* get_upcoming_stops_eta for the query q, rp its route progress
ComputeBegin(p, q, is_stale, rp) ==
    /\ args' = [args EXCEPT ![p] = [op |-> "compute", route_id |-> q.route_id,
                                    current_location |-> q.current_location,
                                    location_timestamp |-> now - q.age,
                                    max_stops |-> q.max_stops, mode |-> q.mode]]
    /\ local' = [local EXCEPT ![p] = [is_stale |-> is_stale, rp |-> rp,
                                      stops_with_eta |-> <<>>, seg |-> [wanted |-> FALSE]]]
    /\ IF q.route_id \notin DOMAIN ROUTE_DEFINITIONS
       THEN /\ pc' = [pc EXCEPT ![p] = "done"]
            /\ ret' = [ret EXCEPT ![p] =
                         [raised |-> FALSE,
                          value |-> build_error_response(q.route_id, "Unknown Route", is_stale,
                                                         "Route definition not found")]]
            /\ hist' = [hist EXCEPT ![p] = NoHist]
       ELSE IF Len(rp.route_stops) = 0
       THEN /\ pc' = [pc EXCEPT ![p] = "done"]
            /\ ret' = [ret EXCEPT ![p] =
                         [raised |-> FALSE,
                          value |-> build_error_response(q.route_id,
                                                         get_route_direction(q.route_id),
                                                         is_stale, "No stops defined")]]
            /\ hist' = [hist EXCEPT ![p] = NoHist]
       ELSE IF Len(rp.stops_slice) = 0
       THEN /\ pc' = [pc EXCEPT ![p] = "done"]
            /\ ret' = [ret EXCEPT ![p] =
                         [raised |-> FALSE,
                          value |-> eta_result(q.route_id, None, <<>>, rp.is_off_route_flag,
                                               is_stale)]]
            /\ hist' = [hist EXCEPT ![p] = NoHist]
       ELSE /\ pc' = [pc EXCEPT ![p] = "waypoint_wait"]
            /\ ret' = [ret EXCEPT ![p] = NoRet]
            /\ hist' = [hist EXCEPT ![p] = [NoHist EXCEPT !.wp = 1]]

\* get_upcoming_stops_eta up to the HTTP request of the waypoint call, or to its return
StartCompute(p) ==
    /\ Free(p)
    /\ started < MaxComputes
    /\ \E q \in ComputeQueries :
          ComputeBegin(p, q, stale_check(now, now - q.age),
                       route_progress(q.route_id, q.current_location, q.max_stops))
    /\ started' = started + 1
    /\ UNCHANGED <<now, osrmCache, segCache, written>>

\* get_upcoming_stops_eta from the outcome of the waypoint call (out) on, after what
\* steps 5 to 8 come to
ComputeContinue(p, out, after) ==
    /\ segCache' = after.segCache
    /\ osrmCache' = after.osrmCache
    /\ local' = [local EXCEPT ![p].stops_with_eta = after.stops_with_eta,
                              ![p].seg = after.seg]
    /\ hist' = [hist EXCEPT ![p].wpout = out, ![p].reqs = after.reqs,
                            ![p].age = after.age, ![p].stored = after.stored,
                            ![p].route = after.route, ![p].late = after.late]
    /\ written' = IF after.stored
                  THEN Put(written, <<args[p].route_id, after.key>>,
                           after.value.current_segment.total_distance_meters)
                  ELSE written
    /\ pc' = [pc EXCEPT ![p] = IF after.done THEN "done" ELSE "route_wait"]
    /\ ret' = [ret EXCEPT ![p] = IF after.done
                                 THEN [raised |-> after.raised, value |-> after.value]
                                 ELSE NoRet]

\* the waypoint call returns or raises: _calculate_etas, the failsafe and step 7, up to
\* the HTTP request of _get_segment_distance or to the return
WaypointOutcome(p, out) ==
    ComputeContinue(p, out,
                    compute_after_etas(segCache, osrmCache, now, args[p].route_id, local[p].rp,
                                       args[p].current_location, args[p].mode,
                                       local[p].is_stale,
                                       calculate_etas(local[p].rp.stops_slice, out)))

WaypointResponse(p) ==
    /\ pc[p] = "waypoint_wait"
    /\ \E resp \in WaypointResponses(Len(local[p].rp.stops_slice)) :
          WaypointOutcome(p, get_route_with_waypoints_response(resp))
    /\ UNCHANGED <<now, args, started>>

\* result.get(key, default)
DictGet(dict, key, default) == IF key \in DOMAIN dict THEN dict[key] ELSE default

\* api/client/controllers_eta.py, get_upcoming_stops_eta: the response the controller
\* builds from the result of the service (the vehicle id, the response time and the
\* position, which do not come from the service, are left out). current_segment is not
\* among the arguments of the constructor, so the field takes its default, None.
ETAUpcomingResponse(result) ==
    [route_id        |-> DictGet(result, "route_id", "unknown"),
     direction       |-> DictGet(result, "direction", "unknown"),
     current_segment |-> None,
     upcoming_stops  |-> DictGet(result, "upcoming_stops", <<>>),
     stale           |-> DictGet(result, "stale", FALSE),
     off_route       |-> DictGet(result, "off_route", FALSE)]

\* get_upcoming_stops_eta, one call after the other
NextCompute ==
    \/ Tick
    \/ StartCompute("p1")
    \/ WaypointResponse("p1")
    \/ RouteResponse("p1")

SpecCompute == Init /\ [][NextCompute]_vars

\* Stops on a line 4 km apart, and one off the line: the route A(0,0), B(0,1), C(0,2)
\* drawn with 16 frame units to the unit
TrackStops ==
    [s \in {"A", "B", "C", "D"} |->
        CASE s = "A" -> Station(s, 0, 0)
          [] s = "B" -> Station(s, 0, 16)
          [] s = "C" -> Station(s, 0, 32)
          [] s = "D" -> Station(s, 16, 32)]

StopLists ==
    { <<>>, <<TrackStops["A"]>>, <<TrackStops["A"], TrackStops["B"]>>,
      <<TrackStops["A"], TrackStops["B"], TrackStops["C"]>>,
      <<TrackStops["A"], TrackStops["B"], TrackStops["C"], TrackStops["D"]>> }

\* on the line, beside it within and beyond the threshold, before the first stop and
\* past the last one
TrackPositions == {<<la, lo>> : la \in {-6, 0, 4, 5}, lo \in {-8, 0, 8, 16, 24, 40}}

Suffixes(seq) == {SubSeq(seq, i, Len(seq)) : i \in 1..(Len(seq) + 1)}

\* The three actions below are calls of functions that await nothing and keep no
\* state: each returns in the step that starts it, and a behaviour makes one call.

\* _find_current_segment, _filter_upcoming_stops, _is_off_route and the slice, as steps
\* 3 and 4 of get_upcoming_stops_eta chain them
TrackProgress(p) ==
    /\ pc[p] = "idle"
    /\ \E route_stops \in StopLists, current_location \in TrackPositions,
          max_stops \in MaxStopsChoices :
          /\ args' = [args EXCEPT ![p] = [op |-> "progress", route_stops |-> route_stops,
                                          current_location |-> current_location,
                                          max_stops |-> max_stops]]
          /\ ret' = [ret EXCEPT ![p] =
                       [raised |-> FALSE,
                        value |-> [current_segment_idx |->
                                       find_current_segment(current_location, route_stops),
                                   progress |->
                                       progress_of(route_stops, current_location, max_stops)]]]
    /\ pc' = [pc EXCEPT ![p] = "done"]
    /\ UNCHANGED <<now, osrmCache, segCache, local, hist, started, written>>

\* _is_off_route for any tail of the route as the upcoming stops
CheckOffRoute(p) ==
    /\ pc[p] = "idle"
    /\ \E all_stops \in StopLists, current_location \in TrackPositions :
          \E upcoming_stops \in Suffixes(all_stops) :
              /\ args' = [args EXCEPT ![p] = [op |-> "is_off_route", all_stops |-> all_stops,
                                              upcoming_stops |-> upcoming_stops,
                                              current_location |-> current_location]]
              /\ ret' = [ret EXCEPT ![p] =
                           [raised |-> FALSE,
                            value |-> is_off_route(current_location, all_stops,
                                                   upcoming_stops)]]
    /\ pc' = [pc EXCEPT ![p] = "done"]
    /\ UNCHANGED <<now, osrmCache, segCache, local, hist, started, written>>

\* total and remaining distances of a segment, metres
Distances == {-5, 0, 1, 950, 1820, 4200, 4500}

\* the progress ratio of step 7
ApplyProgressRatio(p) ==
    /\ pc[p] = "idle"
    /\ \E total_distance \in Distances, remaining \in Distances :
          /\ args' = [args EXCEPT ![p] = [op |-> "progress_ratio",
                                          total_distance |-> total_distance,
                                          remaining |-> remaining]]
          /\ ret' = [ret EXCEPT ![p] =
                       [raised |-> FALSE,
                        value |-> progress_ratio(total_distance, remaining)]]
    /\ pc' = [pc EXCEPT ![p] = "done"]
    /\ UNCHANGED <<now, osrmCache, segCache, local, hist, started, written>>

\* The route-progress functions, on their own
NextProgress ==
    \/ TrackProgress("p1")
    \/ CheckOffRoute("p1")
    \/ ApplyProgressRatio("p1")

SpecProgress == Init /\ [][NextProgress]_vars

\* variant: the cancellation is caught like any other error of the request, and the
\* call runs on with the fallback
Cancel_caught(p) ==
    /\ pc[p] = "route_wait"
    /\ args[p].op = "get_segment_distance"
    /\ SegmentFinish(p, get_segment_distance_response(segCache, osrmCache, now,
                                                      args[p].route_id, args[p].from_station,
                                                      args[p].to_station, args[p].mode,
                                                      ClientError))
    /\ pc' = [pc EXCEPT ![p] = "cancelled"]
    /\ UNCHANGED <<now, args, local, started>>

\* The request is abandoned while the call waits for the engine: asyncio raises
\* CancelledError at the await, which no except clause of get_route, get_table or
\* _get_segment_distance catches (they catch Exception; CancelledError is a
\* BaseException), so the call unwinds without running another statement
Cancel(p) ==
    /\ pc[p] \in {"route_wait", "table_wait"}
    /\ pc' = [pc EXCEPT ![p] = "cancelled"]
    /\ UNCHANGED <<now, osrmCache, segCache, args, local, ret, hist, started, written>>

\* two segments of one route and a segment of another
LegQueries ==
    { [route_id |-> "campus-fcroad", from |-> "campus", to |-> "bavdhan-guard-post", mode |-> "driving"],
      [route_id |-> "campus-fcroad", from |-> "bavdhan-guard-post", to |-> "vanaz-station", mode |-> "driving"],
      [route_id |-> "campus-bavdhan", from |-> "campus", to |-> "bavdhan-guard-post", mode |-> "driving"] }

\* _get_segment_distance for one of the legs, up to the HTTP request of get_route or to
\* its return
StartLeg(p) ==
    /\ Free(p)
    /\ started < MaxCalls
    /\ \E q \in LegQueries :
          SegmentBegin(p, q, segment_key(STATIONS[q.from], STATIONS[q.to]),
                       get_segment_distance_begin(segCache, osrmCache, now, q.route_id,
                                                  STATIONS[q.from], STATIONS[q.to], q.mode))
    /\ started' = started + 1
    /\ UNCHANGED <<now, local>>

\* _get_segment_distance for different segments, by concurrent requests
NextLegs ==
    \/ \E p \in Procs : StartLeg(p)
    \/ \E p \in Procs : RouteResponse(p)

SpecLegs == Init /\ [][NextLegs]_vars

\* get_route, get_table and _get_segment_distance calls of two requests, either of
\* which may be abandoned while it waits
\* one slot calls the gateway directly, the other measures segments; either call may
\* be abandoned while it waits
NextCancel ==
    \/ Tick
    \/ StartRoute("p1")
    \/ StartTable("p1")
    \/ StartSegment("p2")
    \/ \E p \in Procs : RouteResponse(p)
    \/ TableResponse("p1")
    \/ \E p \in Procs : Cancel(p)

SpecCancel == Init /\ [][NextCancel]_vars

\* The gateway alone, one caller at a time
NextGateway ==
    \/ Tick
    \/ StartRoute("p1")
    \/ RouteResponse("p1")
    \/ StartTable("p1")
    \/ TableResponse("p1")

SpecGateway == Init /\ [][NextGateway]_vars

\* Concurrent _get_segment_distance calls
NextSegment ==
    \/ Tick
    \/ \E p \in Procs : StartSegment(p)
    \/ \E p \in Procs : RouteResponse(p)

SpecSegment == Init /\ [][NextSegment]_vars

----------------------------------------------------------------------------
(* Properties of the routing gateway (SpecGateway) *)

RouteCall(p) == args[p].op = "get_route"
TableCall(p) == args[p].op = "get_table"
Answered(p)  == pc[p] = "done" /\ hist[p].resp # None

\* the closed-form estimate, from the numbers themselves: 13.89 m/s driving, 1.39 m/s walking
IsFallbackFor(value, origin, destination, profile) ==
    LET d == haversine_distance(origin[1], origin[2], destination[1], destination[2])
    IN  /\ value.source = "estimate_fallback"
        /\ value.distance_meters = d
        /\ value.duration_seconds = (d * 100) \div (IF profile = "walking" THEN 139 ELSE 1389)

\* a timeout, a non-2xx status, a status code other than Ok, a body without routes,
\* duration or distance
DegradedRouteAnswer(resp) ==
    \/ resp.kind \in {"timeout", "status"}
    \/ /\ resp.kind = "body"
       /\ \/ resp.code # "Ok"
          \/ Len(resp.routes) = 0
          \/ resp.routes[1].duration = Missing
          \/ resp.routes[1].distance = Missing

AllFallbacks(value, origin, destinations, profile) ==
    /\ Len(value) = Len(destinations)
    /\ \A i \in 1..Len(destinations) :
          IsFallbackFor(value[i], origin, destinations[i], profile)

RowsIncomplete(resp, n) ==
    \/ ~resp.durations.present
    \/ ~resp.distances.present
    \/ Len(resp.durations.rows) = 0
    \/ Len(resp.distances.rows) = 0
    \/ Len(resp.durations.rows[1]) < n
    \/ Len(resp.distances.rows[1]) < n

TableRaisesOn(resp, n) ==
    \/ resp.kind = "status" /\ resp.status < 500
    \/ /\ resp.kind = "body"
       /\ \/ resp.code # "Ok"
          \/ /\ ~IndexError(resp.durations) /\ ~IndexError(resp.distances)
             /\ \/ Len(FirstRow(resp.durations)) # n
                \/ Len(FirstRow(resp.distances)) # n

CallKey(p) ==
    IF RouteCall(p)
    THEN route_cache_key(args[p].origin, args[p].destination, args[p].profile)
    ELSE table_cache_key(args[p].origin, args[p].destinations, args[p].profile)

\* C9: get_route and get_table return a stored response without an engine request
\* only when the entry under the call's key (operation, serialized coordinates, mode)
\* is less than 60 s old; on an entry 60 s old or older the call removes the entry and
\* issues a request.
C9_ResponseCacheTtl ==
    \A p \in Procs :
        RouteCall(p) \/ TableCall(p)
        => /\ hist[p].reqs = 0
              => /\ pc[p] = "done"
                 /\ hist[p].age \in 0..(CacheTtl - 1)
           /\ hist[p].age >= CacheTtl
              => /\ hist[p].reqs = 1
                 /\ pc[p] # "done" => CallKey(p) \notin DOMAIN osrmCache

\* a call found an entry exactly 60 s old, removed it and is waiting for the engine
C9_Witness ==
    \E p \in Procs :
        /\ RouteCall(p)
        /\ pc[p] = "route_wait"
        /\ hist[p].age = CacheTtl
        /\ CallKey(p) \notin DOMAIN osrmCache

----------------------------------------------------------------------------
(* Properties of the segment-distance cache (SpecSegment) *)

SegmentCall(p) == args[p].op = "get_segment_distance"
SegmentOf(p)   == segment_key(args[p].from_station, args[p].to_station)

InSegCache(route_id, key) ==
    route_id \in DOMAIN segCache /\ key \in DOMAIN segCache[route_id]

RoutedPositive(route) ==
    route # None /\ route.source # "estimate_fallback" /\ route.distance_meters > 0

\* C2 as stated: a call writes the segment-distance cache only with a routed distance
\* ( > 0) that get_route obtained from the engine, never with a fallback estimate.
C2_StoresOnlyRoutedDistances ==
    \A p \in Procs :
        SegmentCall(p) /\ hist[p].stored => RoutedPositive(hist[p].route)

C7_NeverWrittenAgain ==
    [][\A p \in Procs :
          SegmentCall(p) /\ InSegCache(args[p].route_id, SegmentOf(p))
          => /\ hist'[p].stored => hist[p].stored
             /\ segCache'[args[p].route_id][SegmentOf(p)] = segCache[args[p].route_id][SegmentOf(p)]]_vars

\* C7 amended: once the cache holds a value for a key, no call that begins afterwards
\* writes the key; only a call that was already past its cache check when the value
\* was written can write it again, and the cache then holds the value written last.
C7_OnlyCallsInFlightRewrite ==
    /\ \A p \in Procs : SegmentCall(p) /\ hist[p].stored => hist[p].late = Missing
    /\ \A k \in DOMAIN written : InSegCache(k[1], k[2]) /\ segCache[k[1]][k[2]] = written[k]

\* a call in flight has replaced the distance another call had stored
C7_Witness ==
    \E p, q \in Procs :
        /\ p # q
        /\ SegmentCall(p) /\ SegmentCall(q)
        /\ args[p].route_id = args[q].route_id /\ SegmentOf(p) = SegmentOf(q)
        /\ hist[p].stored /\ hist[q].stored
        /\ ret[p].value # ret[q].value
        /\ segCache[args[q].route_id][SegmentOf(q)] = ret[q].value

BothSucceeded(p, q) ==
    /\ p # q
    /\ SegmentCall(p) /\ SegmentCall(q)
    /\ pc[p] = "done" /\ pc[q] = "done"
    /\ args[p].route_id = args[q].route_id /\ SegmentOf(p) = SegmentOf(q)
    /\ hist[p].reqs = 1 /\ hist[q].reqs = 1
    /\ RoutedPositive(hist[p].route) /\ RoutedPositive(hist[q].route)

\* C8: when two calls for the same (route, from, to) both missed the cache and both
\* got a routed, positive distance from the engine, then once both have returned the
\* cache holds the key with the distance of one of the two.
C8_ConcurrentFirstPopulation ==
    \A p, q \in Procs :
        BothSucceeded(p, q)
        => /\ InSegCache(args[p].route_id, SegmentOf(p))
           /\ segCache[args[p].route_id][SegmentOf(p)]
                 \in {hist[p].route.distance_meters, hist[q].route.distance_meters}
           /\ segCache[args[p].route_id][SegmentOf(p)] > 0

\* both calls succeeded with different distances
C8_Witness ==
    \E p, q \in Procs :
        /\ BothSucceeded(p, q)
        /\ hist[p].route.distance_meters # hist[q].route.distance_meters

----------------------------------------------------------------------------
(* Properties of get_upcoming_stops_eta (SpecCompute) *)

ComputeCall(p) == args[p].op = "compute"
ComputeDone(p) == ComputeCall(p) /\ pc[p] = "done"

\* the dictionary the controller reads: route, direction, stops and the two flags
IsETAResult(value) ==
    /\ {"route_id", "direction", "upcoming_stops", "off_route", "stale"} \subseteq DOMAIN value
    /\ value.off_route \in BOOLEAN
    /\ value.stale \in BOOLEAN
    /\ \A i \in 1..Len(value.upcoming_stops) :
          /\ value.upcoming_stops[i].status \in {"upcoming", "arriving", "skipped", "off_route"}
          /\ value.upcoming_stops[i].source \in {"osrm", "estimate_fallback"}

\* the result of a registered route, which carries current_segment
HasSegmentField(value) == "current_segment" \in DOMAIN value

NoPerLegData(out) ==
    \/ out.raised
    \/ out.value = None
    \/ Len(out.value.legs) = 0

SliceOf(p) ==
    route_progress(args[p].route_id, args[p].current_location, args[p].max_stops).stops_slice

\* the stops of the slice, in order, each without live timing
IsStaticListOf(upcoming_stops, stops_slice) ==
    /\ Len(upcoming_stops) = Len(stops_slice)
    /\ \A i \in 1..Len(stops_slice) :
          /\ upcoming_stops[i].stop_id = stops_slice[i].id
          /\ upcoming_stops[i].eta_seconds = -1
          /\ upcoming_stops[i].distance_meters = -1
          /\ upcoming_stops[i].status = "upcoming"
          /\ upcoming_stops[i].source = "estimate_fallback"

\* C5: when the waypoint call returns no per-leg data or raises, the result's
\* upcoming_stops are the sliced upcoming stops, in the same order and of the same
\* length, each with eta_seconds = -1, distance_meters = -1, status upcoming and
\* source estimate_fallback, and no error is raised.
C5_StaticFallbackList ==
    \A p \in Procs :
        (ComputeDone(p) /\ hist[p].wpout # None /\ NoPerLegData(hist[p].wpout))
            => /\ ~ret[p].raised
               /\ IsStaticListOf(ret[p].value.upcoming_stops, SliceOf(p))

C5_Witness ==
    \E p \in Procs :
        /\ ComputeDone(p)
        /\ hist[p].wpout # None
        /\ hist[p].wpout.raised
        /\ Len(ret[p].value.upcoming_stops) = 2
        /\ IsStaticListOf(ret[p].value.upcoming_stops, SliceOf(p))

\* a result of a registered route
SegmentResult(p) == ComputeDone(p) /\ ~ret[p].raised /\ HasSegmentField(ret[p].value)

LiveList(upcoming_stops) ==
    /\ Len(upcoming_stops) > 0
    /\ \A i \in 1..Len(upcoming_stops) : upcoming_stops[i].source = "osrm"

StaticList(upcoming_stops) ==
    /\ Len(upcoming_stops) > 0
    /\ \A i \in 1..Len(upcoming_stops) :
          /\ upcoming_stops[i].eta_seconds = -1
          /\ upcoming_stops[i].source = "estimate_fallback"

\* C10 as stated: current_segment is non-null only if off_route is false and the
\* upcoming stops are live engine results; with the static fallback list it is null.
C10_SegmentOnlyWithLiveResults ==
    \A p \in Procs :
        SegmentResult(p) =>
            /\ ret[p].value.current_segment # None
                  => (~ret[p].value.off_route /\ LiveList(ret[p].value.upcoming_stops))
            /\ StaticList(ret[p].value.upcoming_stops) => ret[p].value.current_segment = None

\* C10: current_segment is non-null only if off_route is false and upcoming_stops is
\* not empty, whether the stops are live engine results or the static fallback list:
\* whenever off_route is false and upcoming_stops is the static fallback list,
\* current_segment is non-null and its remaining distance is the haversine distance
\* from the position to the segment's end stop.
C10_SegmentOnlyOnRoute ==
    \A p \in Procs :
        SegmentResult(p) =>
            LET value == ret[p].value
                cs    == value.current_segment
            IN  /\ cs # None => (~value.off_route /\ Len(value.upcoming_stops) > 0)
                /\ (StaticList(value.upcoming_stops) /\ ~value.off_route)
                      => /\ cs # None
                         /\ cs.remaining_distance_meters =
                               haversine_distance(args[p].current_location[1],
                                                  args[p].current_location[2],
                                                  STATIONS[cs.to_stop].lat,
                                                  STATIONS[cs.to_stop].lon)

C10_Witness ==
    \E p \in Procs :
        /\ SegmentResult(p)
        /\ StaticList(ret[p].value.upcoming_stops)
        /\ ret[p].value.current_segment # None
        /\ ret[p].value.current_segment.progress_ratio > 0

----------------------------------------------------------------------------
(* The route-progress functions: claims checked under SpecProgress *)

ProgressCall(p) == pc[p] = "done" /\ args[p].op = "progress"

\* the route A, B, C of the scenarios
RouteABC == <<TrackStops["A"], TrackStops["B"], TrackStops["C"]>>

\* the vehicle half a unit past the terminal stop C: (0, 2.5)
PastTerminal == <<0, 40>>

\* C11: for the route A(0,0), B(0,1), C(0,2) and a vehicle at (0,2.5), past the
\* terminal stop, the upcoming list is empty, nothing is left to ask the engine
\* about (the slice is empty) and the off-route flag is true.
C11_PastTerminalNothingUpcoming ==
    \A p \in Procs :
        (/\ ProgressCall(p)
         /\ args[p].route_stops = RouteABC
         /\ args[p].current_location = PastTerminal
         /\ args[p].max_stops >= 1)
        => /\ ret[p].value.progress.upcoming_stops_list = <<>>
           /\ ret[p].value.progress.stops_slice = <<>>
           /\ ret[p].value.progress.is_off_route_flag

----------------------------------------------------------------------------
(* get_upcoming_stops_eta: the off-route flag, the requests, the error results *)

\* a compute call on a registered route, begun and not yet replaced
RegisteredCompute(p) ==
    /\ pc[p] # "idle"
    /\ args[p].op = "compute"
    /\ args[p].route_id \in DOMAIN ROUTE_DEFINITIONS

\* C12: the off-route flag never suppresses the ETA computation: whenever the
\* upcoming list is not empty and max_stops >= 1, compute issues the waypoint
\* request and returns a non-empty upcoming_stops, off_route true or false.
C12_OffRouteNeverSuppresses ==
    \A p \in Procs :
        (/\ RegisteredCompute(p)
         /\ Len(local[p].rp.upcoming_stops_list) > 0
         /\ args[p].max_stops >= 1)
        => /\ hist[p].wp = 1
           /\ pc[p] = "done" => /\ ~ret[p].raised
                                /\ Len(ret[p].value.upcoming_stops) > 0
                                /\ ret[p].value.off_route = local[p].rp.is_off_route_flag

\* an off-route vehicle got its ETAs from the engine
C12_Witness ==
    \E p \in Procs :
        /\ RegisteredCompute(p)
        /\ pc[p] = "done"
        /\ args[p].max_stops >= 1
        /\ hist[p].wp = 1
        /\ ret[p].value.off_route
        /\ Len(ret[p].value.upcoming_stops) > 0
        /\ ret[p].value.upcoming_stops[1].source = "osrm"

\* what a compute call has asked the engine so far (no call has begun initially)
C13_RequestsCounted ==
    \A p \in Procs :
        (pc[p] # "idle" /\ args[p].op = "compute")
        => /\ hist[p].wp <= 1
           /\ hist[p].reqs <= 1
           /\ pc[p] = "waypoint_wait" => hist[p].wp = 1 /\ hist[p].reqs = 0 /\ hist[p].wpout = None
           /\ pc[p] = "route_wait" => hist[p].reqs = 1 /\ hist[p].route = None
           /\ (pc[p] = "done" /\ hist[p].wp = 1) => hist[p].wpout # None
           /\ (pc[p] = "done" /\ hist[p].reqs = 1) => hist[p].route # None

\* how a compute call comes to wait for the engine, and how it leaves the wait
C13_OneWaitEach ==
    \A p \in Procs :
        /\ (pc'[p] = "waypoint_wait" /\ pc[p] # "waypoint_wait")
           => Free(p) /\ started' = started + 1
        /\ (args'[p].op = "compute" /\ pc'[p] = "route_wait" /\ pc[p] # "route_wait")
           => pc[p] = "waypoint_wait"
        /\ (args[p].op = "compute" /\ pc[p] \in {"waypoint_wait", "route_wait"} /\ pc'[p] = pc[p])
           => hist'[p] = hist[p] /\ ret'[p] = ret[p]

\* C13: within one compute every gateway operation issues at most one HTTP request
\* and then completes: a compute waits for the waypoint request at most once and
\* for the segment-distance request at most once, and the answer to a request,
\* failure or timeout included, ends the wait with a result, never with the same
\* request again.
C13_OneAttemptThenFallback == [][C13_OneWaitEach /\ C13_RequestsCounted']_vars

\* both requests of one compute failed, and it returned after the two of them
C13_Witness ==
    \E p \in Procs :
        /\ RegisteredCompute(p)
        /\ pc[p] = "done"
        /\ hist[p].wp = 1
        /\ hist[p].wpout.value = None
        /\ hist[p].reqs = 1
        /\ hist[p].route.source = "estimate_fallback"
        /\ ~ret[p].raised

\* the route id is absent from the registry, or the route resolves to no stops
NoRoute(route_id) ==
    route_id \notin DOMAIN ROUTE_DEFINITIONS \/ Len(get_route_stops(route_id)) = 0

\* the result of a compute on such a route, and what the call asked the engine
C14_ErrorResult ==
    \A p \in Procs :
        (pc[p] # "idle" /\ args[p].op = "compute" /\ NoRoute(args[p].route_id))
        => /\ pc[p] = "done"
           /\ ~ret[p].raised
           /\ "error" \in DOMAIN ret[p].value
           /\ ret[p].value.upcoming_stops = <<>>
           /\ ret[p].value.off_route
           /\ hist[p].wp = 0
           /\ hist[p].reqs = 0
           /\ ~hist[p].stored

\* the step that makes such a call: stale is the age of the position against the
\* threshold, and neither cache is touched
C14_ErrorStep ==
    \A p \in Procs :
        (/\ started' = started + 1
         /\ args'[p].op = "compute"
         /\ pc[p] \in {"idle", "done"}
         /\ hist'[p] = NoHist
         /\ NoRoute(args'[p].route_id))
        => /\ ret'[p].value.stale = (now - args'[p].location_timestamp > StaleThreshold)
           /\ UNCHANGED <<osrmCache, segCache, written>>

\* C14: if the route id is absent from the registry, or the route resolves to no
\* stops, compute returns without raising a result with an error field, empty
\* upcoming_stops, off_route true and stale computed from the position timestamp;
\* it issues no engine request and leaves the response cache and the
\* segment-distance cache unchanged.
C14_NoRouteIsAnErrorResult == [][C14_ErrorStep /\ C14_ErrorResult']_vars

\* an unknown route, asked about with a stale position after the caches were filled
C14_Witness ==
    \E p \in Procs :
        /\ pc[p] = "done"
        /\ args[p].op = "compute"
        /\ args[p].route_id \notin DOMAIN ROUTE_DEFINITIONS
        /\ ret[p].value.error = "Route definition not found"
        /\ ret[p].value.stale
        /\ DOMAIN segCache # {}

----------------------------------------------------------------------------
(* get_upcoming_stops_eta: the list built from a waypoint answer, and its length *)

\* the sum of the first i legs, in tenths
RECURSIVE LegSum(_, _)
LegSum(legs, i) ==
    IF i = 0 THEN Leg(0, 0)
    ELSE Leg(LegSum(legs, i - 1).duration + legs[i].duration,
             LegSum(legs, i - 1).distance + legs[i].distance)

\* the waypoint call of p returned legs, and those read for the slice carry
\* non-negative durations and distances
LegsReturned(p) ==
    /\ hist[p].wpout # None
    /\ ~hist[p].wpout.raised
    /\ hist[p].wpout.value # None
    /\ Len(hist[p].wpout.value.legs) > 0
    /\ \A i \in 1..Min(Len(hist[p].wpout.value.legs), Len(local[p].rp.stops_slice)) :
          /\ hist[p].wpout.value.legs[i].duration >= 0
          /\ hist[p].wpout.value.legs[i].distance >= 0

\* upcoming_stops lists the first stops of the slice, one per leg, each with the
\* whole seconds and metres of the sum of the legs up to it
IsRunningSumOf(upcoming_stops, stops_slice, legs) ==
    /\ Len(upcoming_stops) = Min(Len(legs), Len(stops_slice))
    /\ \A i \in 1..Len(upcoming_stops) :
          /\ upcoming_stops[i].stop_id = stops_slice[i].id
          /\ upcoming_stops[i].source = "osrm"
          /\ upcoming_stops[i].eta_seconds = IntOf(LegSum(legs, i).duration)
          /\ upcoming_stops[i].distance_meters = IntOf(LegSum(legs, i).distance)
    /\ \A i \in 1..(Len(upcoming_stops) - 1) :
          /\ upcoming_stops[i].eta_seconds <= upcoming_stops[i + 1].eta_seconds
          /\ upcoming_stops[i].distance_meters <= upcoming_stops[i + 1].distance_meters

\* C15: in the list built from a waypoint response whose legs have non-negative
\* duration and distance, the i-th entry is the i-th requested stop, eta_seconds and
\* distance_meters are non-decreasing from each returned stop to the next, and each
\* is the running sum of the legs up to that stop (its whole seconds and metres).
C15_RunningSums ==
    \A p \in Procs :
        (RegisteredCompute(p) /\ pc[p] = "done" /\ LegsReturned(p))
        => /\ ~ret[p].raised
           /\ IsRunningSumOf(ret[p].value.upcoming_stops, local[p].rp.stops_slice,
                             hist[p].wpout.value.legs)

\* two stops with live ETAs, the second later and farther than the first
C15_Witness ==
    \E p \in Procs :
        /\ RegisteredCompute(p)
        /\ pc[p] = "done"
        /\ LegsReturned(p)
        /\ Len(ret[p].value.upcoming_stops) = 2
        /\ ret[p].value.upcoming_stops[1].eta_seconds > 0
        /\ ret[p].value.upcoming_stops[2].eta_seconds > ret[p].value.upcoming_stops[1].eta_seconds
        /\ ret[p].value.upcoming_stops[2].distance_meters
             > ret[p].value.upcoming_stops[1].distance_meters

\* upcoming_stops lists the first stops of the upcoming list, in route order
IsPrefixOf(upcoming_stops, upcoming_stops_list) ==
    /\ Len(upcoming_stops) <= Len(upcoming_stops_list)
    /\ \A i \in 1..Len(upcoming_stops) : upcoming_stops[i].stop_id = upcoming_stops_list[i].id

\* a compute on a registered route has returned a result
ComputeReturned(p) == RegisteredCompute(p) /\ pc[p] = "done" /\ ~ret[p].raised

\* C16 as stated: for every integer max_stops passed to compute, the returned
\* upcoming_stops is a prefix, in route order, of the upcoming list, and its length
\* exceeds neither 10 nor max_stops.
C16_AtMostMaxStops ==
    \A p \in Procs :
        ComputeReturned(p)
        => /\ IsPrefixOf(ret[p].value.upcoming_stops, local[p].rp.upcoming_stops_list)
           /\ Len(ret[p].value.upcoming_stops) <= MaxStopsLimit
           /\ Len(ret[p].value.upcoming_stops) <= args[p].max_stops

\* C16, amended: for every integer max_stops the returned upcoming_stops is a prefix,
\* in route order, of the upcoming list, of at most 10 stops; it has at most
\* max_stops stops when max_stops >= 0, and when max_stops is negative it leaves
\* out the last -max_stops stops of the upcoming list instead.
C16_AtMostMaxStopsWhenNotNegative ==
    \A p \in Procs :
        ComputeReturned(p)
        => /\ IsPrefixOf(ret[p].value.upcoming_stops, local[p].rp.upcoming_stops_list)
           /\ Len(ret[p].value.upcoming_stops) <= MaxStopsLimit
           /\ args[p].max_stops >= 0
              => Len(ret[p].value.upcoming_stops) <= args[p].max_stops
           /\ args[p].max_stops < 0
              => Len(ret[p].value.upcoming_stops)
                   <= Max(Len(local[p].rp.upcoming_stops_list) + args[p].max_stops, 0)

\* four stops ahead, two asked for and two returned
C16_Witness ==
    \E p \in Procs :
        /\ ComputeReturned(p)
        /\ args[p].max_stops = 2
        /\ Len(local[p].rp.upcoming_stops_list) = 4
        /\ Len(ret[p].value.upcoming_stops) = 2

----------------------------------------------------------------------------
(* The progress ratio and the route-progress functions, under SpecProgress *)

RatioCall(p) == pc[p] = "done" /\ args[p].op = "progress_ratio"

\* C17: the progress_ratio of a current_segment is in [0,1] (thousandths: 0..1000);
\* when total_distance_meters > 0 it is (total - remaining) / total clamped to
\* [0,1]: 0 when nothing of the segment is done, 1 when nothing remains, the
\* thousandths of the quotient between; when total_distance_meters <= 0 it is 0.
C17_ProgressRatioClamped ==
    \A p \in Procs :
        RatioCall(p)
        => LET total     == args[p].total_distance
               remaining == args[p].remaining
               ratio     == ret[p].value
           IN  /\ ratio >= 0 /\ ratio <= 1000
               /\ total <= 0 => ratio = 0
               /\ (total > 0 /\ remaining >= total) => ratio = 0
               /\ (total > 0 /\ remaining <= 0) => ratio = 1000
               /\ (total > 0 /\ remaining > 0 /\ remaining < total)
                  => /\ ratio * total <= (total - remaining) * 1000
                     /\ (total - remaining) * 1000 < (ratio + 1) * total

\* 1820 m left of a segment of 4200 m: between a half and two thirds of the way
C17_Witness ==
    \E p \in Procs :
        /\ RatioCall(p)
        /\ args[p].total_distance = 4200
        /\ args[p].remaining = 1820
        /\ ret[p].value = 566

\* the vehicle halfway between A and B: (0, 0.5)
BetweenAB == <<0, 8>>

\* C18: the upcoming list is exactly stops[idx+1:], idx the current segment, for a
\* route of two or more stops, the whole list for a single-stop route and the empty
\* list for an empty route; for A(0,0), B(0,1), C(0,2) and a vehicle at (0,0.5)
\* idx = 0 and the upcoming list is [B, C].
C18_UpcomingAfterCurrentSegment ==
    \A p \in Procs :
        ProgressCall(p)
        => LET stops    == args[p].route_stops
               idx      == ret[p].value.current_segment_idx
               upcoming == ret[p].value.progress.upcoming_stops_list
           IN  /\ Len(stops) = 0 => upcoming = <<>>
               /\ Len(stops) = 1 => upcoming = stops
               /\ Len(stops) >= 2
                  => /\ Len(upcoming) = Len(stops) - (idx + 1)
                     /\ \A i \in 1..Len(upcoming) : upcoming[i] = stops[idx + 1 + i]
               /\ (stops = RouteABC /\ args[p].current_location = BetweenAB)
                  => /\ idx = 0
                     /\ upcoming = <<TrackStops["B"], TrackStops["C"]>>

\* the scenario: on the first segment, B and C ahead
C18_Witness ==
    \E p \in Procs :
        /\ ProgressCall(p)
        /\ args[p].route_stops = RouteABC
        /\ args[p].current_location = BetweenAB
        /\ ret[p].value.progress.upcoming_stops_list = <<TrackStops["B"], TrackStops["C"]>>

\* the distance from the position to the segment from stop i to stop i + 1 (0-based)
SegmentDistance(current_location, stops, i) ==
    point_to_segment_distance(current_location, <<stops[i + 1].lat, stops[i + 1].lon>>,
                              <<stops[i + 2].lat, stops[i + 2].lon>>)

\* C19: the current segment is the smallest index i in [0, len(stops) - 2] whose
\* segment (stops[i], stops[i+1]) is at the minimum distance from the position: no
\* segment is nearer, and every earlier segment is farther; for a single-stop route
\* it is 0.
C19_NearestSegmentFirstOnTies ==
    \A p \in Procs :
        ProgressCall(p)
        => LET stops == args[p].route_stops
               loc   == args[p].current_location
               idx   == ret[p].value.current_segment_idx
           IN  /\ Len(stops) = 1 => idx = 0
               /\ Len(stops) >= 2
                  => /\ idx \in 0..(Len(stops) - 2)
                     /\ \A j \in 0..(Len(stops) - 2) :
                           ~DistLess(SegmentDistance(loc, stops, j),
                                     SegmentDistance(loc, stops, idx))
                     /\ \A j \in 0..(idx - 1) :
                           DistLess(SegmentDistance(loc, stops, idx),
                                    SegmentDistance(loc, stops, j))

\* the vehicle at B, as near to A->B as to B->C: the first of the two is chosen
C19_Witness ==
    \E p \in Procs :
        /\ ProgressCall(p)
        /\ args[p].route_stops = RouteABC
        /\ args[p].current_location = <<0, 16>>
        /\ ~DistLess(SegmentDistance(<<0, 16>>, RouteABC, 0), SegmentDistance(<<0, 16>>, RouteABC, 1))
        /\ ~DistLess(SegmentDistance(<<0, 16>>, RouteABC, 1), SegmentDistance(<<0, 16>>, RouteABC, 0))
        /\ ret[p].value.current_segment_idx = 0

OffRouteCall(p) == pc[p] = "done" /\ args[p].op = "is_off_route"

\* strictly more than the off-route threshold, for a squared distance in frame units
BeyondThreshold(d) ==
    d.num > (OffRouteThreshold \div 250) * (OffRouteThreshold \div 250) * d.den

\* C20: is_off_route is true when the upcoming list is empty; otherwise, with next
\* the first upcoming stop and prev the stop just before it in all_stops (next
\* itself when it is the first stop), it is true exactly when the position is
\* strictly more than 1000 m from the segment prev -> next (from the point next
\* when prev = next).
C20_OffRouteBeyondThreshold ==
    \A p \in Procs :
        OffRouteCall(p)
        => LET all_stops == args[p].all_stops
               upcoming  == args[p].upcoming_stops
               k         == Len(all_stops) - Len(upcoming) + 1
               next      == upcoming[1]
               prev      == IF k = 1 THEN next ELSE all_stops[k - 1]
           IN  /\ Len(upcoming) = 0 => ret[p].value = TRUE
               /\ Len(upcoming) > 0
                  => /\ all_stops[k] = next
                     /\ ret[p].value =
                           BeyondThreshold(
                               point_to_segment_distance(args[p].current_location,
                                                         <<prev.lat, prev.lon>>,
                                                         <<next.lat, next.lon>>))

\* a vehicle exactly 1000 m beside the segment A -> B is still on the route
C20_Witness ==
    \E p \in Procs :
        /\ OffRouteCall(p)
        /\ args[p].all_stops = RouteABC
        /\ args[p].upcoming_stops = <<TrackStops["B"], TrackStops["C"]>>
        /\ args[p].current_location = <<4, 8>>
        /\ ret[p].value = FALSE

----------------------------------------------------------------------------
(* The gateway: null cells, the source of a result, what the response cache holds *)

\* the table answer is complete: status code Ok, one cell per destination in both rows
CompleteTable(resp, n) ==
    /\ resp.kind = "body"
    /\ resp.code = "Ok"
    /\ resp.durations.present /\ Len(resp.durations.rows) > 0
    /\ resp.distances.present /\ Len(resp.distances.rows) > 0
    /\ Len(resp.durations.rows[1]) = n
    /\ Len(resp.distances.rows[1]) = n

\* the cell of destination i is null in the durations or in the distances
NullCell(resp, i) ==
    resp.durations.rows[1][i] = Missing \/ resp.distances.rows[1][i] = Missing

\* C21: when the table response is complete but some cells are null, get_table
\* returns one entry per destination in destination order, in which exactly the
\* destinations whose duration or distance cell is null carry the closed-form
\* fallback estimate and every other destination keeps the engine's duration and
\* distance (their whole seconds and metres).
C21_NullCellsFallBackAlone ==
    \A p \in Procs :
        (TableCall(p) /\ Answered(p) /\ CompleteTable(hist[p].resp, Len(args[p].destinations)))
        => /\ ~ret[p].raised
           /\ Len(ret[p].value) = Len(args[p].destinations)
           /\ \A i \in 1..Len(args[p].destinations) :
                 IF NullCell(hist[p].resp, i)
                 THEN IsFallbackFor(ret[p].value[i], args[p].origin, args[p].destinations[i],
                                    args[p].profile)
                 ELSE /\ ret[p].value[i].source # "estimate_fallback"
                      /\ ret[p].value[i].duration_seconds
                           = hist[p].resp.durations.rows[1][i] \div 10
                      /\ ret[p].value[i].distance_meters
                           = hist[p].resp.distances.rows[1][i] \div 10

\* the first destination's cell was null and the second one's was not
C21_Witness ==
    \E p \in Procs :
        /\ TableCall(p) /\ Answered(p)
        /\ CompleteTable(hist[p].resp, 2)
        /\ NullCell(hist[p].resp, 1) /\ ~NullCell(hist[p].resp, 2)
        /\ ret[p].value[1].source = "estimate_fallback"
        /\ ret[p].value[2].source # "estimate_fallback"
        /\ ret[p].value[2].distance_meters = 4200

\* get_route has returned a result
RouteReturned(p) == RouteCall(p) /\ pc[p] = "done" /\ ~ret[p].raised

\* the engine answered the call with a route, or the call was served from the
\* response cache
RoutedAnswer(p) ==
    \/ hist[p].reqs = 0
    \/ hist[p].resp # None /\ hist[p].resp.kind = "body" /\ ~DegradedRouteAnswer(hist[p].resp)

\* C22 as stated: every result of get_route carries an explicit source: that of a
\* routed result ("osrm") when the engine answered successfully or the response
\* cache served the call, "estimate_fallback" on every degraded path.
C22_ExplicitSource ==
    \A p \in Procs :
        RouteReturned(p)
        => /\ ret[p].value.source \in {"osrm", "estimate_fallback"}
           /\ ret[p].value.source = "osrm" <=> RoutedAnswer(p)

\* C22, amended: a result of get_route carries source = "estimate_fallback" exactly
\* on the degraded paths; a result the engine gave, fresh or served from the
\* response cache, carries no source field at all ("absent").
C22_SourceMarksFallbackOnly ==
    \A p \in Procs :
        RouteReturned(p)
        => /\ ret[p].value.source \in {"absent", "estimate_fallback"}
           /\ ret[p].value.source = "absent" <=> RoutedAnswer(p)

\* a result served from the response cache, without a source field
C22_Witness ==
    \E p \in Procs :
        /\ RouteReturned(p)
        /\ hist[p].reqs = 0
        /\ ret[p].value.source = "absent"
        /\ ret[p].value.distance_meters = 4200

(***************************************************************************)
(* An abandoned request                                                    *)
(***************************************************************************)
CallWaiting(p) == pc[p] \in {"route_wait", "table_wait"}

Abandoned(p) == pc[p] = "cancelled"

CachesUnchanged == osrmCache' = osrmCache /\ segCache' = segCache

\* a call of another slot took a step
OtherCallStepped(p) ==
    \E q \in Procs \ {p} :
        /\ ~Abandoned(q) \/ ~Abandoned(q)'
        /\ pc'[q] # pc[q] \/ args'[q] # args[q] \/ hist'[q] # hist[q]

C23_AbandonStep ==
    \A p \in Procs :
        /\ (~Abandoned(p) /\ Abandoned(p)') =>
               /\ CallWaiting(p)
               /\ CachesUnchanged
               /\ written' = written
               /\ ret'[p] = ret[p]
        /\ (Abandoned(p) /\ Abandoned(p)') =>
               /\ ret'[p] = ret[p]
               /\ hist'[p] = hist[p]
               /\ ~CachesUnchanged => OtherCallStepped(p)

\* C23: a call abandoned while it waits for the engine writes nothing: the step that
\* abandons it starts from a wait and leaves the response cache and the
\* segment-distance cache as they were, and as long as the call stays abandoned it
\* returns nothing and every change of either cache is the step of another call
C23_AbandonedCallWritesNothing == [][C23_AbandonStep]_vars

\* a segment call was abandoned after its one request, and neither cache holds its key
C23_Witness ==
    \E p \in Procs :
        /\ Abandoned(p)
        /\ SegmentCall(p)
        /\ hist[p].reqs = 1
        /\ ~InSegCache(args[p].route_id, SegmentOf(p))
        /\ route_cache_key(<<args[p].from_station.lat, args[p].from_station.lon>>,
                           <<args[p].to_station.lat, args[p].to_station.lon>>,
                           args[p].mode) \notin DOMAIN osrmCache

(***************************************************************************)
(* The stale flag                                                          *)
(***************************************************************************)
\* a result without its stale flag
Unstale(value) == IF value = None THEN None ELSE [value EXCEPT !.stale = FALSE]

\* what a compute call that returns before any request returns, for the flag is_stale
ImmediateResult(q, is_stale) ==
    IF q.route_id \notin DOMAIN ROUTE_DEFINITIONS
    THEN build_error_response(q.route_id, "Unknown Route", is_stale,
                              "Route definition not found")
    ELSE LET rp == route_progress(q.route_id, q.current_location, q.max_stops)
         IN  IF Len(rp.route_stops) = 0
             THEN build_error_response(q.route_id, get_route_direction(q.route_id), is_stale,
                                       "No stops defined")
             ELSE eta_result(q.route_id, None, <<>>, rp.is_off_route_flag, is_stale)

\* whether a compute call for q sends the waypoint request
SendsWaypointRequest(q) ==
    /\ q.route_id \in DOMAIN ROUTE_DEFINITIONS
    /\ Len(route_progress(q.route_id, q.current_location, q.max_stops).stops_slice) > 0

\* steps 5 to 8 of the call of slot p after the waypoint call came to out, had the flag
\* been is_stale
AfterWaypoint(p, out, is_stale) ==
    compute_after_etas(segCache, osrmCache, now, args[p].route_id, local[p].rp,
                       args[p].current_location, args[p].mode, is_stale,
                       calculate_etas(local[p].rp.stops_slice, out))

\* the step of slot p did what twin does, the flag of the result apart
SameButFlag(p, twin) ==
    [twin EXCEPT !.value = Unstale(@), !.key = <<>>]
    = [done |-> pc'[p] = "done",
       raised |-> ret'[p].raised,
       value |-> Unstale(ret'[p].value),
       segCache |-> segCache', osrmCache |-> osrmCache',
       stored |-> hist'[p].stored, route |-> hist'[p].route, reqs |-> hist'[p].reqs,
       age |-> hist'[p].age, late |-> hist'[p].late, key |-> <<>>,
       stops_with_eta |-> local'[p].stops_with_eta, seg |-> local'[p].seg]

\* the step that starts a compute call sets the flag from the age of the position, and
\* what else it does is what it would have done with the opposite flag
C24_StartStep ==
    \A p \in Procs :
        (ComputeCall(p)' /\ started' = started + 1) =>
            /\ local'[p].is_stale = (now - args'[p].location_timestamp > StaleThreshold)
            /\ (pc'[p] = "waypoint_wait") = SendsWaypointRequest(args'[p])
            /\ (pc'[p] = "done") = ~SendsWaypointRequest(args'[p])
            /\ pc'[p] = "done" =>
                   /\ ~ret'[p].raised
                   /\ Unstale(ret'[p].value)
                        = Unstale(ImmediateResult(args'[p], ~local'[p].is_stale))

\* the step after the waypoint call, and the step after the segment's route call, do
\* what they would have done with the opposite flag
C24_WaitStep ==
    \A p \in Procs :
        /\ (ComputeCall(p) /\ pc[p] = "waypoint_wait" /\ pc'[p] # pc[p]) =>
               SameButFlag(p, AfterWaypoint(p, hist'[p].wpout, ~local[p].is_stale))
        /\ (ComputeCall(p) /\ pc[p] = "route_wait" /\ pc'[p] # pc[p]) =>
               Unstale(ret'[p].value)
                 = Unstale(segment_result(args[p].route_id, local[p].rp, local[p].seg,
                                          args[p].current_location, ~local[p].is_stale,
                                          local[p].stops_with_eta,
                                          ret'[p].value.current_segment.total_distance_meters))

\* the flag of a result is the flag the call set at its start
C24_FlagKept ==
    \A p \in Procs :
        (ComputeCall(p) /\ pc[p] = "done" /\ ~ret[p].raised)
        => ret[p].value.stale = local[p].is_stale

\* C24: stale is true exactly when the position is more than 60 s old at the start of
\* the call, and nothing else depends on it: at every step of a compute call the
\* requests sent, the caches and every other field of the result are the same as they
\* would be with the opposite flag
C24_StaleIsInformational == [][C24_StartStep /\ C24_WaitStep /\ C24_FlagKept']_vars

\* a call with a position 61 s old returned stale with a current segment, after a
\* waypoint request and a segment request
C24_Witness ==
    \E p \in Procs :
        /\ ComputeReturned(p)
        /\ ret[p].value.stale
        /\ ret[p].value.current_segment # None
        /\ hist[p].wp = 1
        /\ hist[p].reqs = 1

(***************************************************************************)
(* What the response cache holds                                           *)
(***************************************************************************)
IsEstimate(result) == result.source = "estimate_fallback"

\* the results of the entry under key: one for a route, one per destination for a table
EntryResults(key) ==
    IF key[1] = "route"
    THEN {osrmCache[key].value}
    ELSE {osrmCache[key].value[i] : i \in DOMAIN osrmCache[key].value}

\* C25 as stated: every value in the response cache comes from the engine; no route
\* result and no table result with a fallback estimate in it is ever stored.
C25_CacheHoldsEngineValuesOnly ==
    \A key \in DOMAIN osrmCache : \A result \in EntryResults(key) : ~IsEstimate(result)

C27_SegmentLeadsToFirstUpcoming ==
    \A p \in Procs :
        (ComputeReturned(p) /\ ret[p].value.current_segment # None)
        => LET segment  == ret[p].value.current_segment
               upcoming == ret[p].value.upcoming_stops
               stops    == get_route_stops(args[p].route_id)
           IN  /\ Len(upcoming) >= 1
               /\ upcoming[1].stop_id = segment.to_stop
               /\ \E i \in 1..(Len(stops) - 1) :
                      /\ stops[i].id = segment.from_stop
                      /\ stops[i + 1].id = segment.to_stop

\* a call on campus-fcroad returned the segment campus -> bavdhan-guard-post with two
\* upcoming stops, bavdhan-guard-post first
C27_Witness ==
    \E p \in Procs :
        /\ ComputeReturned(p)
        /\ args[p].route_id = "campus-fcroad"
        /\ ret[p].value.current_segment # None
        /\ ret[p].value.current_segment.from_stop = "campus"
        /\ ret[p].value.current_segment.to_stop = "bavdhan-guard-post"
        /\ Len(ret[p].value.upcoming_stops) = 2
        /\ ret[p].value.upcoming_stops[1].stop_id = "bavdhan-guard-post"

(***************************************************************************)
(* The segment cache: its keys                                             *)
(***************************************************************************)
\* every slot but p is as it was
OthersIdle(p) ==
    \A q \in Procs \ {p} :
        pc'[q] = pc[q] /\ args'[q] = args[q] /\ hist'[q] = hist[q] /\ ret'[q] = ret[q]

\* the step leaves every route's map but route_id's as it was, and creates no other
OnlyRouteTouched(route_id) ==
    /\ DOMAIN segCache' \subseteq DOMAIN segCache \cup {route_id}
    /\ \A r \in DOMAIN segCache \ {route_id} : r \in DOMAIN segCache' /\ segCache'[r] = segCache[r]

\* the call slot p starts is decided by what is stored for its route and stop pair
\* alone: a stored value is returned with no request, whatever the mode; with none
\* stored the call goes to get_route, which sends a request or answers from the
\* response cache
StartedBy(p) ==
    /\ Free(p)
    /\ SegmentCall(p)'
    /\ OthersIdle(p)
    /\ OnlyRouteTouched(args'[p].route_id)
    /\ LET route_id == args'[p].route_id
           key      == segment_key(args'[p].from_station, args'[p].to_station)
       IN  IF InSegCache(route_id, key)
           THEN /\ pc'[p] = "done"
                /\ hist'[p].reqs = 0
                /\ ~ret'[p].raised
                /\ ret'[p].value = segCache[route_id][key]
                /\ segCache' = segCache
           ELSE \/ pc'[p] = "route_wait" /\ hist'[p].reqs = 1
                \/ pc'[p] = "done" /\ hist'[p].reqs = 0 /\ hist'[p].age # Missing

C28_StartStep == (started' = started + 1) => \E p \in Procs : StartedBy(p)

\* the call that returns writes at most the entry of its own route and stop pair
C28_ReturnStep ==
    \A p \in Procs :
        (SegmentCall(p) /\ pc[p] = "route_wait" /\ pc'[p] = "done")
        => /\ OnlyRouteTouched(args[p].route_id)
           /\ \A k \in DOMAIN segCache'[args[p].route_id] \ {SegmentOf(p)} :
                  /\ InSegCache(args[p].route_id, k)
                  /\ segCache'[args[p].route_id][k] = segCache[args[p].route_id][k]

\* the keys of a route's map are pairs of stop ids
C28_KeysAreStopPairs ==
    \A route_id \in DOMAIN segCache :
        DOMAIN segCache[route_id] \subseteq StationIds \X StationIds

\* C28: the segment cache is keyed by route and stop pair, not by mode: a call finds
\* what any earlier call stored for its route and stop pair, in either mode, and
\* returns it with no request; what is stored under one route is neither found nor
\* changed by a call for the same stops on another route.
C28_KeyedByRouteAndStops ==
    [][C28_StartStep /\ C28_ReturnStep /\ C28_KeysAreStopPairs']_vars

\* a driving call stored the distance of campus -> bavdhan-guard-post on one route, a
\* walking call on that route returned it with no request, and the other route's map
\* has no entry for the same stops
C28_Witness ==
    \E p, q \in Procs :
        /\ SegmentCall(p) /\ SegmentCall(q)
        /\ args[p].mode = "driving" /\ hist[p].stored
        /\ args[q].mode = "walking" /\ args[q].route_id = args[p].route_id
        /\ pc[q] = "done"
        /\ hist[q].reqs = 0
        /\ hist[q].late # Missing
        /\ ret[q].value = hist[q].late
        /\ ~InSegCache("campus-bavdhan", SegmentOf(q))

(***************************************************************************)
(* The segment cache: concurrent inserts                                   *)
(***************************************************************************)
\* the call of slot p returned a distance it stored
StoredBy(p) == SegmentCall(p) /\ pc[p] = "done" /\ hist[p].stored

SameSegment(p, q) == args[p].route_id = args[q].route_id /\ SegmentOf(p) = SegmentOf(q)

\* no step removes a route's map or an entry of it
C29_MapsOnlyGrow ==
    \A route_id \in DOMAIN segCache :
        /\ route_id \in DOMAIN segCache'
        /\ DOMAIN segCache[route_id] \subseteq DOMAIN segCache'[route_id]

\* the cache holds every key ever written, with the value written to it last; and when
\* the only two calls made were for different segments and both stored, it holds each
\* call's key with the distance that call returned
C29_InsertsKept ==
    /\ \A k \in DOMAIN written :
          InSegCache(k[1], k[2]) /\ segCache[k[1]][k[2]] = written[k]
    /\ \A p, q \in Procs :
          (p # q /\ started = 2 /\ StoredBy(p) /\ StoredBy(q) /\ ~SameSegment(p, q))
          => /\ InSegCache(args[p].route_id, SegmentOf(p))
             /\ segCache[args[p].route_id][SegmentOf(p)] = ret[p].value

\* C29: concurrent calls for different segments, of one route or of two, lose no
\* insert in any interleaving: a route's map, once created, is never replaced and never
\* loses an entry, and after the calls have stored, the cache holds each call's key
\* with the distance that call obtained.
C29_NoLostInsert == [][C29_MapsOnlyGrow /\ C29_InsertsKept']_vars

\* two calls for different segments of campus-fcroad each sent a request and stored a
\* distance, and the route's map holds both
C29_Witness ==
    \E p, q \in Procs :
        /\ p # q /\ started = 2
        /\ StoredBy(p) /\ StoredBy(q)
        /\ hist[p].reqs = 1 /\ hist[q].reqs = 1
        /\ args[p].route_id = "campus-fcroad" /\ args[q].route_id = "campus-fcroad"
        /\ SegmentOf(p) # SegmentOf(q)
        /\ DOMAIN segCache["campus-fcroad"] = {SegmentOf(p), SegmentOf(q)}

(***************************************************************************)
(* The /eta/upcoming controller                                            *)
(***************************************************************************)
\* C30 as stated: the response of /eta/upcoming carries the route_id, direction,
\* upcoming_stops, stale, off_route and current_segment the service computed for the
\* request, unchanged.
C30_ResponsePassesResultThrough ==
    \A p \in Procs :
        (ComputeDone(p) /\ ~ret[p].raised)
        => LET result   == ret[p].value
               response == ETAUpcomingResponse(result)
           IN  /\ response.route_id = result.route_id
               /\ response.direction = result.direction
               /\ response.upcoming_stops = result.upcoming_stops
               /\ response.stale = result.stale
               /\ response.off_route = result.off_route
               /\ "current_segment" \in DOMAIN result
                  => response.current_segment = result.current_segment

====
